---- MODULE Spec2Model ----
(***************************************************************************)
(* Motion-analytics engine of backend/form_analyzer.py (class              *)
(* FormAnalyzer): rep-detection state machines, stability scoring, the     *)
(* adaptive step detector, the activity classifier bridge and the energy   *)
(* estimator; and of backend/server.py the selected exercise and the      *)
(* set_exercise handler.                                                   *)
(*                                                                         *)
(* Fixed-point units (the code computes in floats):                        *)
(*   time           0.1 s        (0.3 s = 3, 2.0 s = 20, 10 s = 100)       *)
(*   acceleration   0.01 g       (1.05 g = 105, 0.3 g = 30)                *)
(*   angular rate   1 deg/s,  angles 1 degree, heart rate 1 BPM            *)
(*   confidence     1/1200       (0.9 = 1080, 1.0 = 1200)                  *)
(*   energy         1/376560000 kcal  (CalUnit), so that both the          *)
(*                  heart-rate and the MET increments are integers         *)
(* Optional values (None in the code) are sequences: << >> is None and     *)
(* <<v>> is the value v.                                                   *)
(***************************************************************************)
EXTENDS Integers, Sequences, FiniteSets, TLC

VARIABLES
    rep_state,          \* self.rep_state: "up" | "down"
    movement_history,   \* self.movement_history: list of (pitch, roll, timestamp)
    last_rep_time,      \* self.last_rep_time: None or a wall-clock time
    rep_durations,      \* self.rep_durations
    range_of_motion,    \* self.range_of_motion: [min, max]
    current_form_score, \* self.current_form_score
    current_feedback,   \* self.current_feedback
    mode,               \* self.mode: "normal" | "workout"
    step_count,         \* self.step_count
    _last_step_time,     \* self._last_step_time
    _step_buffer,        \* self._step_buffer: deque of (timestamp, magnitude)
    _last_metric_time,   \* self._last_metric_time
    latest_metrics,     \* self.latest_metrics: the published snapshot
    user_height_cm,     \* self.user_height_cm
    user_weight_kg,     \* self.user_weight_kg
    user_age,           \* self.user_age
    _calories_accum,     \* self._calories_accum
    activity_model,     \* self.activity_model: "none" | "proba" | "noproba"
    mesh,               \* self.mesh: the pose of the joints
    sensor_data,        \* server.py: the global sensor_data (its 'exercise'
                        \* and its 'repCount')
    connected_to_esp32, \* server.py: the global connected_to_esp32
    demo_mode,          \* server.py: the global demo_mode
    running,            \* form_analyzer.demo_mode.running
    demo_exercise,      \* form_analyzer.demo_mode.exercise
    rep_count,          \* form_analyzer.demo_mode.rep_count
    producers,          \* server.py: the background threads started so far,
                        \* each with its kind and its position in its loop
    heuristic_calls,    \* history: the arguments and result of every call of
                        \* _simple_activity_classification, while recording
    clock,              \* the wall clock read by datetime.now()
    ret,                \* what the last call returned
    call,               \* the last call: its name, arguments and locals
    nsamples            \* number of samples handled so far

analyzerVars == <<rep_state, movement_history, last_rep_time, rep_durations,
                  range_of_motion, current_form_score, current_feedback>>
stepVars == <<step_count, _last_step_time, _step_buffer>>
energyVars == <<_last_metric_time, _calories_accum>>
profileVars == <<user_height_cm, user_weight_kg, user_age>>
serverVars ==
    <<connected_to_esp32, demo_mode, running, demo_exercise, rep_count>>
vars == <<rep_state, movement_history, last_rep_time, rep_durations,
          range_of_motion, current_form_score, current_feedback, mode,
          step_count, _last_step_time, _step_buffer, _last_metric_time,
          latest_metrics, user_height_cm, user_weight_kg, user_age,
          _calories_accum, activity_model, mesh, sensor_data,
          connected_to_esp32, demo_mode, running, demo_exercise, rep_count,
          producers, heuristic_calls, clock, ret, call, nsamples>>

(***************************************************************************)
(* Program constants                                                       *)
(***************************************************************************)
MinStepInterval == 3
MaxStepInterval == 20
StepBufferMaxLen == 100
MinBufferForDetection == 5
RecentWindow == 10
CadenceWindow == 100
ThresholdFloor == 30
MovementHistoryMax == 20
RepDurationsMax == 5
DefaultHeightCm == 170
DefaultWeightKg == 70
DefaultAge == 30

(***************************************************************************)
(* Arithmetic helpers                                                      *)
(***************************************************************************)
Max2(a, b) == IF a >= b THEN a ELSE b
Min2(a, b) == IF a <= b THEN a ELSE b
Abs(a) == IF a < 0 THEN -a ELSE a

RECURSIVE SeqSum(_)
SeqSum(s) == IF s = << >> THEN 0 ELSE Head(s) + SeqSum(Tail(s))

RECURSIVE SeqSumSq(_)
SeqSumSq(s) == IF s = << >> THEN 0 ELSE Head(s) * Head(s) + SeqSumSq(Tail(s))

\* s[-k:] of Python
LastK(s, k) == IF Len(s) <= k THEN s ELSE SubSeq(s, Len(s) - k + 1, Len(s))

\* math.sqrt(x*x + y*y + z*z), exact on the vectors the inputs are drawn from
\* (the root lies between the largest component and the sum of the three)
Norm3(x, y, z) ==
    LET n == x * x + y * y + z * z
        lo == Max2(Abs(x), Max2(Abs(y), Abs(z)))
    IN  CHOOSE r \in lo..(Abs(x) + Abs(y) + Abs(z)) :
            r * r <= n /\ (r + 1) * (r + 1) > n

\* round(): to the nearest multiple of d, ties to even
RoundHalfEven(a, d) ==
    LET q == a \div d
        r == a % d
    IN  IF 2 * r < d THEN q
        ELSE IF 2 * r > d THEN q + 1
        ELSE IF q % 2 = 0 THEN q ELSE q + 1

\* Faulty variant: a full buffer keeps its entries and drops the new one
BoundedAppendDropsNewest(s, e, cap) ==
    IF Len(s) >= cap THEN s ELSE Append(s, e)

\* deque(maxlen=cap).append / list.append followed by pop(0)
BoundedAppend(s, e, cap) ==
    IF Len(s) >= cap THEN Append(Tail(s), e) ELSE Append(s, e)

(***************************************************************************)
(* Sensor samples.  NoData is sensor_data = None.  A timestamp is a record  *)
(* [kind, v]: "num" a number (0 is falsy), "iso" an ISO-8601 string whose   *)
(* epoch value is v, "bad" an unparsable string, "empty" the empty string,  *)
(* "missing" no key.                                                        *)
(***************************************************************************)
NoData == [none |-> TRUE]
HasData(sd) == "none" \notin DOMAIN sd

TsNum(v) == [kind |-> "num", v |-> v]

Sample(ax, gy, hr, ts) ==
    [ax |-> ax, ay |-> 0, az |-> 0, gx |-> 0, gy |-> gy, gz |-> 0,
     heartRate |-> hr, timestamp |-> ts]

\* Faulty variant: an unparsable timestamp is read as 0
ParseTimestampBadZero(sd, now) ==
    LET t == sd.timestamp
    IN  IF t.kind \in {"missing", "empty"} \/ (t.kind = "num" /\ t.v = 0) THEN now
        ELSE IF t.kind = "num" THEN t.v
        ELSE IF t.kind = "iso" THEN t.v
        ELSE 0

\* lines 766-776: the timestamp of the sample, or the current time
ParseTimestamp(sd, now) ==
    LET t == sd.timestamp
    IN  IF t.kind \in {"missing", "empty"} \/ (t.kind = "num" /\ t.v = 0) THEN now
        ELSE IF t.kind = "num" THEN t.v
        ELSE IF t.kind = "iso" THEN t.v
        ELSE now

\* line 897: sensor_data.get('heartRate', 0) or 0; a missing key, None and 0
\* all give 0.  A heart rate that is not numeric (a string such as 'n/a') is
\* kept in the field heartRateText, and float() raises on it.
HeartRate(sd) == IF "heartRate" \in DOMAIN sd THEN sd.heartRate ELSE 0
HeartRateRaises(sd) == "heartRateText" \in DOMAIN sd

\* a sample whose heartRate is the string 'n/a'
BadHeartRateSample(ax, gy, ts) ==
    [ax |-> ax, ay |-> 0, az |-> 0, gx |-> 0, gy |-> gy, gz |-> 0,
     heartRateText |-> "n/a", timestamp |-> ts]

\* a sample with no heartRate key
NoHeartRateSample(ax, gy, ts) ==
    [ax |-> ax, ay |-> 0, az |-> 0, gx |-> 0, gy |-> gy, gz |-> 0,
     timestamp |-> ts]

AccMagnitude(sd) == Norm3(sd.ax, sd.ay, sd.az)
GyroMagnitude(sd) == Norm3(sd.gx, sd.gy, sd.gz)

Mags(buf) == [i \in 1..Len(buf) |-> buf[i][2]]

(***************************************************************************)
(* Adaptive step detector (lines 792-829)                                  *)
(***************************************************************************)
\* x > mean + max(0.3, 1.5 * std) over the whole buffer, in exact integers:
\* with n = len, S = sum, Q = n*sum(m^2) - S^2 (so std = sqrt(Q)/n) and
\* D = n*x - S, the test is D > 0.3*n and 2*D > 3*sqrt(Q).
\* Faulty variant: the floor of 0.3 g is missing, the threshold being
\* mean + 1.5 * std
AboveThresholdNoFloor(x, mags) ==
    LET n == Len(mags)
        S == SeqSum(mags)
        Q == n * SeqSumSq(mags) - S * S
        D == n * x - S
    IN  /\ D > 0
        /\ 4 * D * D > 9 * Q

AboveThreshold(x, mags) ==
    LET n == Len(mags)
        S == SeqSum(mags)
        Q == n * SeqSumSq(mags) - S * S
        D == n * x - S
    IN  /\ D > ThresholdFloor * n
        /\ D > 0
        /\ 4 * D * D > 9 * Q

\* recent_mags[mid_idx] with mid_idx = 2 of the last 10 magnitudes
IsPeak(buf) ==
    LET recent == LastK(Mags(buf), RecentWindow)
    IN  /\ Len(recent) >= 5
        /\ AboveThreshold(recent[3], Mags(buf))
        /\ recent[3] > recent[2]
        /\ recent[3] > recent[1]
        /\ recent[3] > recent[4]
        /\ recent[3] > recent[5]

\* Faulty variant: the upper limit of the interval is not checked
InStepWindowNoMax(delta) == MinStepInterval <= delta

InStepWindow(delta) == MinStepInterval <= delta /\ delta <= MaxStepInterval

\* Faulty variant: an in-window step is counted twice
StepDecisionDoubleCount(buf, now, last, count) ==
    IF Len(buf) >= MinBufferForDetection /\ IsPeak(buf)
    THEN IF last = << >>
         THEN [detected |-> TRUE, last |-> <<now>>, count |-> count]
         ELSE IF InStepWindow(now - last[1])
              THEN [detected |-> TRUE, last |-> <<now>>, count |-> count + 2]
              ELSE [detected |-> FALSE, last |-> last, count |-> count]
    ELSE [detected |-> FALSE, last |-> last, count |-> count]

\* Faulty variant: the first accepted step is counted too
StepDecisionFirstCounts(buf, now, last, count) ==
    IF Len(buf) >= MinBufferForDetection /\ IsPeak(buf)
    THEN IF last = << >>
         THEN [detected |-> TRUE, last |-> <<now>>, count |-> count + 1]
         ELSE IF InStepWindow(now - last[1])
              THEN [detected |-> TRUE, last |-> <<now>>, count |-> count + 1]
              ELSE [detected |-> FALSE, last |-> last, count |-> count]
    ELSE [detected |-> FALSE, last |-> last, count |-> count]

\* Faulty variant: with fewer than 5 samples a peak among 3 is accepted
StepDecisionEarly(buf, now, last, count) ==
    IF \/ Len(buf) >= MinBufferForDetection /\ IsPeak(buf)
       \/ /\ Len(buf) \in 3..(MinBufferForDetection - 1)
          /\ buf[3][2] > buf[2][2]
          /\ buf[3][2] > buf[1][2]
    THEN IF last = << >>
         THEN [detected |-> TRUE, last |-> <<now>>, count |-> count]
         ELSE IF InStepWindow(now - last[1])
              THEN [detected |-> TRUE, last |-> <<now>>, count |-> count + 1]
              ELSE [detected |-> FALSE, last |-> last, count |-> count]
    ELSE [detected |-> FALSE, last |-> last, count |-> count]

\* Faulty variant: after a gap above the maximum interval the detector
\* starts again, the candidate being accepted like a first step
StepDecisionRearm(buf, now, last, count) ==
    IF Len(buf) >= MinBufferForDetection /\ IsPeak(buf)
    THEN IF last = << >> \/ now - last[1] > MaxStepInterval
         THEN [detected |-> TRUE, last |-> <<now>>, count |-> count]
         ELSE IF InStepWindow(now - last[1])
              THEN [detected |-> TRUE, last |-> <<now>>, count |-> count + 1]
              ELSE [detected |-> FALSE, last |-> last, count |-> count]
    ELSE [detected |-> FALSE, last |-> last, count |-> count]

\* lines 819-829: [detected, last, count] after a sample at time now
StepDecision(buf, now, last, count) ==
    IF Len(buf) >= MinBufferForDetection /\ IsPeak(buf)
    THEN IF last = << >>
         THEN [detected |-> TRUE, last |-> <<now>>, count |-> count]
         ELSE IF InStepWindow(now - last[1])
              THEN [detected |-> TRUE, last |-> <<now>>, count |-> count + 1]
              ELSE [detected |-> FALSE, last |-> last, count |-> count]
    ELSE [detected |-> FALSE, last |-> last, count |-> count]

\* lines 831-835
CadenceSpm(buf, now) ==
    LET window_start == now - CadenceWindow
        steps_recent == {i \in 1..Len(buf) : buf[i][1] >= window_start}
        steps_in_window == {i \in steps_recent : buf[i][1] >= window_start - 5}
    IN  Cardinality(steps_in_window) * 6


(***************************************************************************)
(* Activity classifier bridge (lines 837-880, 952-973)                     *)
(***************************************************************************)
\* Faulty variant: the rule set also reads the mode of the session
_simple_activity_classification_ByMode(cadence_spm, acc_mag, gyro_mag) ==
    IF mode = "workout" THEN [activity |-> "walking", confidence |-> 600]
    ELSE IF cadence_spm < 20 /\ acc_mag < 105 /\ gyro_mag < 80
    THEN [activity |-> "stationary", confidence |-> 1080]
    ELSE [activity |-> "walking", confidence |-> 600]

\* Faulty variant: the walking rule is tried before the running rule
_simple_activity_classification_WalkingFirst(cadence_spm, acc_mag, gyro_mag) ==
    IF cadence_spm < 20 /\ acc_mag < 105 /\ gyro_mag < 80
    THEN [activity |-> "stationary", confidence |-> 1080]
    ELSE IF cadence_spm >= 20 \/ acc_mag > 105 \/ gyro_mag > 120
    THEN [activity |-> "walking",
          confidence |-> Min2(1080, 360 + Max2(10 * cadence_spm,
                                               12 * (acc_mag - 100)))]
    ELSE IF cadence_spm >= 80 \/ (gyro_mag > 300 /\ acc_mag > 120)
    THEN [activity |-> "running",
          confidence |-> Min2(1200, 600 + Max2(10 * (cadence_spm - 80),
                                               3 * (gyro_mag - 300)))]
    ELSE [activity |-> "stationary", confidence |-> 1020]

\* lines 952-973: (activity, confidence) of the heuristic rule set
_simple_activity_classification(cadence_spm, acc_mag, gyro_mag) ==
    IF cadence_spm < 20 /\ acc_mag < 105 /\ gyro_mag < 80
    THEN [activity |-> "stationary", confidence |-> 1080]
    ELSE IF cadence_spm >= 80 \/ (gyro_mag > 300 /\ acc_mag > 120)
    THEN [activity |-> "running",
          confidence |-> Min2(1200, 600 + Max2(10 * (cadence_spm - 80),
                                               3 * (gyro_mag - 300)))]
    ELSE IF cadence_spm >= 20 \/ acc_mag > 105 \/ gyro_mag > 120
    THEN [activity |-> "walking",
          confidence |-> Min2(1080, 360 + Max2(10 * cadence_spm,
                                               12 * (acc_mag - 100)))]
    ELSE [activity |-> "stationary", confidence |-> 1020]

\* str(prediction).lower() on the labels a classifier is given here
Lower(label) ==
    CASE label = "Walking" -> "walking"
      [] label = "Running" -> "running"
      [] label = "Stationary" -> "stationary"
      [] OTHER -> label

\* One call of the injected classifier: it raises, or returns a label and
\* (when it has predict_proba) the largest class probability.
ClsRaise == [kind |-> "raise"]
ClsOk(label, proba) == [kind |-> "ok", label |-> label, proba |-> proba]

\* Faulty variant: the classifier is used in every mode
UsesClassifierAnyMode(model, md) == model # "none"

\* line 841: the classifier is used only when present and in normal mode
UsesClassifierIn(model, md) == model # "none" /\ md = "normal"

UsesClassifier == UsesClassifierIn(activity_model, mode)

\* Faulty variant: a raising classifier leaves the defaults of lines 838-839
ClassifyNoFallback(model, md, cls, cadence_spm, acc_mag, gyro_mag) ==
    IF UsesClassifierIn(model, md)
    THEN IF cls.kind = "raise"
         THEN [activity |-> "stationary", confidence |-> 600]
         ELSE [activity |-> Lower(cls.label),
               confidence |-> IF model = "proba" THEN cls.proba ELSE 960]
    ELSE _simple_activity_classification(cadence_spm, acc_mag, gyro_mag)

\* lines 837-872: the classification before the safety override, for the
\* classifier model (none, with or without predict_proba) in mode md
ClassifyWith(model, md, cls, cadence_spm, acc_mag, gyro_mag) ==
    IF UsesClassifierIn(model, md)
    THEN IF cls.kind = "raise"
         THEN _simple_activity_classification(cadence_spm, acc_mag, gyro_mag)
         ELSE [activity |-> Lower(cls.label),
               confidence |-> IF model = "proba" THEN cls.proba ELSE 960]
    ELSE _simple_activity_classification(cadence_spm, acc_mag, gyro_mag)

Classify(cls, cadence_spm, acc_mag, gyro_mag) ==
    ClassifyWith(activity_model, mode, cls, cadence_spm, acc_mag, gyro_mag)

\* One call of the heuristic: its arguments and what it returned
HeuristicCallOf(cadence_spm, acc_mag, gyro_mag) ==
    [cadence_spm |-> cadence_spm, acc_mag |-> acc_mag, gyro_mag |-> gyro_mag,
     result |-> _simple_activity_classification(cadence_spm, acc_mag, gyro_mag)]

\* The history after the calls in made (none, or one)
Recorded(made) ==
    IF heuristic_calls.on /\ made # << >>
    THEN [heuristic_calls EXCEPT !.calls = @ \cup {made[1]}]
    ELSE heuristic_calls

\* lines 874-880: robust idle detection
IsIdle(cadence_spm, acc_mag, gyro_mag) ==
    cadence_spm < 20 /\ acc_mag < 105 /\ gyro_mag < 80

\* Faulty variant: the classification is published as it is
SafetyOverrideOff(c, cadence_spm, acc_mag, gyro_mag) == c

SafetyOverride(c, cadence_spm, acc_mag, gyro_mag) ==
    IF IsIdle(cadence_spm, acc_mag, gyro_mag)
    THEN [activity |-> "stationary", confidence |-> 1080]
    ELSE c

\* lines 882-893: speed in 0.01 km/h, as round(running_speed_kmh, 2)
SpeedKmh(activity, cadence_spm) ==
    LET height == Max2(50, user_height_cm)
        stride == IF activity = "running" THEN 650
                  ELSE IF activity = "walking" THEN 415 ELSE 0
    IN  RoundHalfEven(cadence_spm * 6 * stride * height, 100000)

(***************************************************************************)
(* Energy expenditure estimator (lines 895-938), in CalUnit                *)
(***************************************************************************)
\* Faulty variant: the elapsed time is not clamped at 0
ElapsedDtNoClamp(now, last) == now - last

\* line 903: dt = max(0.0, now - self._last_metric_time)
ElapsedDt(now, last) == Max2(0, now - last)

\* Faulty variant: a heart rate of 200 is still used
UsesHeartRateInclusive(hr, dt) == hr > 0 /\ hr <= 200 /\ dt > 0

\* line 907
UsesHeartRate(hr, dt) == hr > 0 /\ hr < 200 /\ dt > 0

\* Faulty variant: the age term is left out
CaloriesPerMinNoAge(hr, weight, age) ==
    LET raw == -550969 + 6309 * hr + 1988 * weight
    IN  IF raw < 0 THEN 0 ELSE raw

\* lines 911-917: 10^4 * 4.184 * calories_per_min, clamped at 0
CaloriesPerMin(hr, weight, age) ==
    LET raw == -550969 + 6309 * hr + 1988 * weight + 2017 * age
    IN  IF raw < 0 THEN 0 ELSE raw

\* lines 925-929: 10 * MET
Met(activity) ==
    IF activity = "walking" THEN 35
    ELSE IF activity = "running" THEN 98 ELSE 10

\* lines 906-935
CaloriesIncrement(hr, dt, activity, weight, age) ==
    IF UsesHeartRate(hr, dt)
    THEN 15 * CaloriesPerMin(hr, weight, age) * dt
    ELSE 1046 * Met(activity) * weight * dt

\* round(self._calories_accum, 4), in 0.0001 kcal
CaloriesRounded(accum) == RoundHalfEven(accum, 37656)

(***************************************************************************)
(* _process_activity_and_steps (lines 764-950): every value the call       *)
(* computes from the state, the sample sd, the current time now and the    *)
(* outcome cls of the classifier call (read only when it is called)        *)
(***************************************************************************)
ProcessLocalsWith(model, md, sd, now, cls) ==
    LET ts == ParseTimestamp(sd, now)
        acc == AccMagnitude(sd)
        gyro == GyroMagnitude(sd)
        buf == BoundedAppend(_step_buffer, <<ts, acc>>, StepBufferMaxLen)
        step == StepDecision(buf, ts, _last_step_time, step_count)
        cadence == CadenceSpm(buf, ts)
        c == SafetyOverride(ClassifyWith(model, md, cls, cadence, acc, gyro),
                            cadence, acc, gyro)
        lmt == IF _last_metric_time = << >> THEN ts ELSE _last_metric_time[1]
        dt == ElapsedDt(ts, lmt)
        inc == CaloriesIncrement(HeartRate(sd), dt, c.activity,
                                 user_weight_kg, user_age)
    IN  [ts |-> ts, acc_magnitude |-> acc, gyro_magnitude |-> gyro,
         buf |-> buf, buffered |-> Len(buf),
         time_since_last |-> IF _last_step_time = << >> THEN << >>
                             ELSE <<ts - _last_step_time[1]>>,
         is_peak |-> (Len(buf) >= MinBufferForDetection /\ IsPeak(buf)),
         step_detected |-> step.detected, last_step |-> step.last,
         step_count |-> step.count, cadence_spm |-> cadence,
         activity |-> c.activity, confidence |-> c.confidence,
         hr |-> HeartRate(sd), dt |-> dt,
         used_hr |-> UsesHeartRate(HeartRate(sd), dt),
         calories_increment |-> inc,
         accum |-> _calories_accum + inc,
         metrics |-> [stepCount |-> step.count,
                      stepDetected |-> step.detected,
                      activity |-> c.activity,
                      activityConfidence |-> c.confidence,
                      runningSpeedKmh |-> SpeedKmh(c.activity, cadence),
                      caloriesTotal |-> CaloriesRounded(_calories_accum + inc)],
         heuristic |-> IF UsesClassifierIn(model, md) /\ cls.kind # "raise"
                       THEN << >>
                       ELSE <<HeuristicCallOf(cadence, acc, gyro)>>]

ProcessLocals(sd, now, cls) ==
    ProcessLocalsWith(activity_model, mode, sd, now, cls)

\* The locals of the call that the last-call record keeps
Observed(p) ==
    [ts |-> p.ts, acc_magnitude |-> p.acc_magnitude,
     gyro_magnitude |-> p.gyro_magnitude, buffered |-> p.buffered,
     time_since_last |-> p.time_since_last, is_peak |-> p.is_peak,
     step_detected |-> p.step_detected, cadence_spm |-> p.cadence_spm,
     activity |-> p.activity, confidence |-> p.confidence, hr |-> p.hr,
     dt |-> p.dt, used_hr |-> p.used_hr,
     calories_increment |-> p.calories_increment]

\* The assignments of _process_activity_and_steps
ApplyProcess(p) ==
    /\ _step_buffer' = p.buf
    /\ _last_step_time' = p.last_step
    /\ step_count' = p.step_count
    /\ _calories_accum' = p.accum
    /\ _last_metric_time' = <<p.ts>>
    /\ latest_metrics' = p.metrics

\* The assignments made before line 897 raises: the buffer and the step
\* state are written, the energy state and the snapshot are not
ApplyProcessUntilHeartRate(p) ==
    /\ _step_buffer' = p.buf
    /\ _last_step_time' = p.last_step
    /\ step_count' = p.step_count
    /\ UNCHANGED <<_calories_accum, _last_metric_time, latest_metrics>>

(***************************************************************************)
(* Rep-detection state machines and form scoring (lines 458-730)           *)
(***************************************************************************)
SupportedExercises == {"bicep_curl", "lateral_raise", "shoulder_press", "running"}
RepExercises == {"bicep_curl", "lateral_raise", "shoulder_press"}

Tag(cond, text) == IF cond THEN <<text>> ELSE << >>
\* Faulty variant: every penalty is applied twice
PenDouble(cond, points) == IF cond THEN 2 * points ELSE 0

Pen(cond, points) == IF cond THEN points ELSE 0

\* lines 655-669: the history and the range of motion after the append
HistoryAfter(pitch, roll, now) ==
    BoundedAppend(movement_history,
                  [pitch |-> pitch, roll |-> roll, timestamp |-> now],
                  MovementHistoryMax)

RomAfter(pitch) ==
    [min |-> Min2(range_of_motion.min, pitch),
     max |-> Max2(range_of_motion.max, pitch)]

\* lines 720-730: _update_rep_metrics(timestamp), run when rep is TRUE
DurationsAfter(rep, now) ==
    IF rep /\ last_rep_time # << >>
    THEN BoundedAppend(rep_durations, now - last_rep_time[1], RepDurationsMax)
    ELSE rep_durations

LastRepAfter(rep, now) == IF rep THEN <<now>> ELSE last_rep_time

RomAfterRep(rep, pitch) == IF rep THEN [min |-> 0, max |-> 0] ELSE RomAfter(pitch)

\* lines 573-579: a pitch change above 20 among the first len-2 differences
Jerky(hist) ==
    /\ Len(hist) >= 3
    /\ \E i \in 1..(Len(hist) - 2) : Abs(hist[i + 1].pitch - hist[i].pitch) > 20

\* Faulty variant: the lowering threshold is the raise threshold, with no
\* band between the two
_analyze_bicep_curl_NoBand(pitch, roll, sd, hist, now) ==
    LET goUp == rep_state = "down" /\ pitch > 60
        goDown == ~goUp /\ rep_state = "up" /\ pitch <= 60
        fast == goUp /\ HasData(sd) /\ Abs(sd.gy) > 200
        swing == goUp /\ HasData(sd) /\ Abs(sd.ax) > 50
        s1 == IF goUp
              THEN (IF pitch > 120 THEN 85 ELSE IF pitch >= 90 THEN 100 ELSE 85)
                   - Pen(fast, 15) - Pen(swing, 20)
              ELSE 100 - Pen(goDown /\ pitch > 5, 10)
        f1 == IF goUp
              THEN (IF pitch > 120 THEN <<"Too much curl - maintain control">>
                    ELSE IF pitch >= 90 THEN <<"Perfect curl height!">>
                    ELSE <<"Curl a bit higher">>)
                   \o Tag(fast, "Slower, control the curl")
                   \o Tag(swing, "Reduce body swing")
              ELSE IF goDown
              THEN (IF pitch > 5 THEN <<"Extend arms fully">>
                    ELSE <<"Good extension!">>)
              ELSE << >>
        rolled == Abs(roll) > 10
        durs == DurationsAfter(goDown, now)
        jerky == Jerky(hist)
        tempo == Len(hist) >= 3 /\ Len(durs) >= 2
        last2 == IF tempo THEN durs[Len(durs)] + durs[Len(durs) - 1] ELSE 0
        tooFast == tempo /\ last2 < 30
        tooSlow == tempo /\ ~tooFast /\ last2 > 50
    IN  [score |-> s1 - Pen(rolled, 20) - Pen(jerky, 10)
                      - Pen(tooFast, 10) - Pen(tooSlow, 5),
         feedback |-> f1
                      \o Tag(rolled /\ roll > 0, "Keep right arm steady")
                      \o Tag(rolled /\ ~(roll > 0), "Keep left arm steady")
                      \o Tag(jerky, "Smooth out the movement")
                      \o Tag(tooFast, "Slow down for better form")
                      \o Tag(tooSlow, "Maintain steady pace"),
         rep_detected |-> goDown,
         rep_state |-> IF goUp THEN "up" ELSE IF goDown THEN "down" ELSE rep_state]

\* lines 516-591
_analyze_bicep_curl(pitch, roll, sd, hist, now) ==
    LET goUp == rep_state = "down" /\ pitch > 60
        goDown == ~goUp /\ rep_state = "up" /\ pitch < 20
        fast == goUp /\ HasData(sd) /\ Abs(sd.gy) > 200
        swing == goUp /\ HasData(sd) /\ Abs(sd.ax) > 50
        s1 == IF goUp
              THEN (IF pitch > 120 THEN 85 ELSE IF pitch >= 90 THEN 100 ELSE 85)
                   - Pen(fast, 15) - Pen(swing, 20)
              ELSE 100 - Pen(goDown /\ pitch > 5, 10)
        f1 == IF goUp
              THEN (IF pitch > 120 THEN <<"Too much curl - maintain control">>
                    ELSE IF pitch >= 90 THEN <<"Perfect curl height!">>
                    ELSE <<"Curl a bit higher">>)
                   \o Tag(fast, "Slower, control the curl")
                   \o Tag(swing, "Reduce body swing")
              ELSE IF goDown
              THEN (IF pitch > 5 THEN <<"Extend arms fully">>
                    ELSE <<"Good extension!">>)
              ELSE << >>
        rolled == Abs(roll) > 10
        durs == DurationsAfter(goDown, now)
        jerky == Jerky(hist)
        tempo == Len(hist) >= 3 /\ Len(durs) >= 2
        last2 == IF tempo THEN durs[Len(durs)] + durs[Len(durs) - 1] ELSE 0
        tooFast == tempo /\ last2 < 30
        tooSlow == tempo /\ ~tooFast /\ last2 > 50
    IN  [score |-> s1 - Pen(rolled, 20) - Pen(jerky, 10)
                      - Pen(tooFast, 10) - Pen(tooSlow, 5),
         feedback |-> f1
                      \o Tag(rolled /\ roll > 0, "Keep right arm steady")
                      \o Tag(rolled /\ ~(roll > 0), "Keep left arm steady")
                      \o Tag(jerky, "Smooth out the movement")
                      \o Tag(tooFast, "Slow down for better form")
                      \o Tag(tooSlow, "Maintain steady pace"),
         rep_detected |-> goDown,
         rep_state |-> IF goUp THEN "up" ELSE IF goDown THEN "down" ELSE rep_state]

\* Faulty variant: the rep is emitted on the raise instead of on the way down
_analyze_lateral_raise_RepOnRaise(pitch, roll) ==
    LET goUp == rep_state = "down" /\ pitch > 20
        goDown == ~goUp /\ rep_state = "up" /\ pitch < 20
    IN  [score |-> 100, feedback |-> << >>, rep_detected |-> goUp,
         rep_state |-> IF goUp THEN "up" ELSE IF goDown THEN "down" ELSE rep_state]

\* lines 593-622
_analyze_lateral_raise(pitch, roll) ==
    LET goUp == rep_state = "down" /\ pitch > 20
        goDown == ~goUp /\ rep_state = "up" /\ pitch < 20
        rolled == Abs(roll) > 12
    IN  [score |-> 100 - Pen(goUp /\ pitch > 100, 10) - Pen(rolled, 10),
         feedback |-> (IF goUp
                       THEN (IF pitch > 100 THEN <<"Too high - control the raise">>
                             ELSE <<"Good raise">>)
                       ELSE << >>)
                      \o Tag(rolled, "Keep wrist steady"),
         rep_detected |-> goDown,
         rep_state |-> IF goUp THEN "up" ELSE IF goDown THEN "down" ELSE rep_state]

\* lines 624-653
_analyze_shoulder_press(pitch, roll) ==
    LET goUp == rep_state = "down" /\ pitch > 30
        goDown == ~goUp /\ rep_state = "up" /\ pitch < 30
        rolled == Abs(roll) > 12
    IN  [score |-> 100 - Pen(goUp /\ pitch > 120, 10) - Pen(rolled, 12),
         feedback |-> (IF goUp
                       THEN (IF pitch > 120 THEN <<"Overextension">>
                             ELSE <<"Good press">>)
                       ELSE << >>)
                      \o Tag(rolled, "Keep elbows steady"),
         rep_detected |-> goDown,
         rep_state |-> IF goUp THEN "up" ELSE IF goDown THEN "down" ELSE rep_state]

\* lines 483-487
RunningResult ==
    [score |-> 100,
     feedback |-> <<"Running mode: use steps and heart rate metrics">>,
     rep_detected |-> FALSE, rep_state |-> rep_state]

\* lines 476-487: the dispatch on the exercise name
ExerciseResult(exercise, pitch, roll, sd, hist, now) ==
    IF exercise = "bicep_curl" THEN _analyze_bicep_curl(pitch, roll, sd, hist, now)
    ELSE IF exercise = "lateral_raise" THEN _analyze_lateral_raise(pitch, roll)
    ELSE IF exercise = "shoulder_press" THEN _analyze_shoulder_press(pitch, roll)
    ELSE RunningResult

\* lines 671-693, with the state as the exercise analysis left it
_analyze_movement_tempo(sd, hist, state, lastRep, durs) ==
    IF Len(hist) < 2 THEN << >>
    ELSE LET gy == Abs(sd.gy)
             timed == lastRep # << >> /\ Len(durs) > 0
         IN  (IF gy > 200 THEN <<"Movement too fast - maintain control">>
              ELSE IF gy < 50 /\ state # "rest"
              THEN <<"Movement too slow - maintain momentum">>
              ELSE << >>)
             \o Tag(timed /\ SeqSum(durs) < 15 * Len(durs), "Slow down your reps")
             \o Tag(timed /\ ~(SeqSum(durs) < 15 * Len(durs))
                          /\ SeqSum(durs) > 40 * Len(durs),
                    "Speed up slightly")

\* np.var(x) > limit for the 5 values x: (5*sum(x^2) - sum(x)^2) / 25 > limit
VarianceAbove(xs, limit) == 5 * SeqSumSq(xs) - SeqSum(xs) * SeqSum(xs) > 25 * limit

\* Faulty variant: the roll penalty is dropped when the pitch penalty applies
_analyze_stability_OnePenalty(hist) ==
    IF Len(hist) < 5 THEN [score |-> 100, feedback |-> << >>]
    ELSE LET last5 == LastK(hist, 5)
             pitches == [i \in 1..5 |-> last5[i].pitch]
             rolls == [i \in 1..5 |-> last5[i].roll]
             pv == VarianceAbove(pitches, 100)
             rv == VarianceAbove(rolls, 50)
         IN  [score |-> 100 - (IF pv THEN 20 ELSE Pen(rv, 15)),
              feedback |-> Tag(pv, "Stabilize your movement - too much variation")
                           \o Tag(rv, "Keep your form steady - reduce swaying")]

\* lines 695-718
_analyze_stability(hist) ==
    IF Len(hist) < 5 THEN [score |-> 100, feedback |-> << >>]
    ELSE LET last5 == LastK(hist, 5)
             pitches == [i \in 1..5 |-> last5[i].pitch]
             rolls == [i \in 1..5 |-> last5[i].roll]
             pv == VarianceAbove(pitches, 100)
             rv == VarianceAbove(rolls, 50)
         IN  [score |-> 100 - Pen(pv, 20) - Pen(rv, 15),
              feedback |-> Tag(pv, "Stabilize your movement - too much variation")
                           \o Tag(rv, "Keep your form steady - reduce swaying")]

UnsupportedResult ==
    [score |-> 0, feedback |-> <<"Select a wrist-compatible exercise to begin">>,
     rep_detected |-> FALSE]

\* lines 458-514: every value analyze computes for a supported exercise
AnalyzeLocals(exercise, pitch, roll, sd, now) ==
    LET hist == HistoryAfter(pitch, roll, now)
        e == ExerciseResult(exercise, pitch, roll, sd, hist, now)
        rep == e.rep_detected
        durs == DurationsAfter(rep, now)
        lastRep == LastRepAfter(rep, now)
        tempo == IF HasData(sd)
                 THEN _analyze_movement_tempo(sd, hist, e.rep_state, lastRep, durs)
                 ELSE << >>
        st == _analyze_stability(hist)
    IN  [score |-> IF st.feedback # << >> THEN Min2(e.score, st.score) ELSE e.score,
         feedback |-> e.feedback \o tempo \o st.feedback,
         rep_detected |-> rep,
         rep_state |-> e.rep_state,
         hist |-> hist, durs |-> durs, last_rep |-> lastRep,
         rom |-> RomAfterRep(rep, pitch)]


(***************************************************************************)
(* HumanMesh (lines 32-145): the joints are a function of the last pitch   *)
(* and roll of a bicep curl, or at their initial positions                 *)
(***************************************************************************)
InitialPose == [pose |-> "initial"]

\* lines 80-85: the exercises update_joint_positions dispatches to a method;
\* _update_squat and _update_pushup are not defined, so the call raises
MeshMethods == {"bicep_curl", "squat", "pushup"}
MeshDefined == {"bicep_curl"}
MeshRaises(exercise) == exercise \in MeshMethods \ MeshDefined

\* lines 74-87
update_joint_positions(pitch, roll, exercise) ==
    IF exercise = "bicep_curl"
    THEN [pose |-> "bicep_curl", pitch |-> pitch, roll |-> roll]
    ELSE InitialPose

(***************************************************************************)
(* State after FormAnalyzer.__init__ (lines 372-442); model is what        *)
(* _load_activity_model found: no classifier, one with predict_proba, or   *)
(* one with predict only                                                   *)
(***************************************************************************)
NotProcessed == [none |-> TRUE]

InitState(model, recording) ==
    /\ rep_state = "up"
    /\ movement_history = << >>
    /\ last_rep_time = << >>
    /\ rep_durations = << >>
    /\ range_of_motion = [min |-> 0, max |-> 0]
    /\ current_form_score = 100
    /\ current_feedback = << >>
    /\ mode = "normal"
    /\ step_count = 0
    /\ _last_step_time = << >>
    /\ _step_buffer = << >>
    /\ _last_metric_time = << >>
    /\ latest_metrics = [stepCount |-> 0, stepDetected |-> FALSE,
                         activity |-> "unknown", activityConfidence |-> 0,
                         runningSpeedKmh |-> 0, caloriesTotal |-> 0]
    /\ user_height_cm = DefaultHeightCm
    /\ user_weight_kg = DefaultWeightKg
    /\ user_age = DefaultAge
    /\ _calories_accum = 0
    /\ activity_model = model
    /\ mesh = InitialPose
    /\ sensor_data = [exercise |-> "Ready", repCount |-> 0]
    /\ connected_to_esp32 = FALSE
    /\ demo_mode = FALSE
    /\ running = FALSE
    /\ demo_exercise = "Ready"
    /\ rep_count = 0
    /\ producers = << >>
    /\ heuristic_calls = [on |-> recording, calls |-> {}]
    /\ clock = 0
    /\ ret = [op |-> "init"]
    /\ call = [op |-> "init", processed |-> FALSE, failed |-> FALSE,
                supported |-> FALSE]
    /\ nsamples = 0

InitWith(model) == InitState(model, FALSE)

(***************************************************************************)
(* Operations.  tick is the wall-clock time that passed since the previous *)
(* call; datetime.now() is read once per call.  cls is the outcome of the  *)
(* classifier call, should the call make one.                              *)
(***************************************************************************)
\* lines 764-950, called directly by the server in 'Ready' mode
_process_activity_and_steps(sd, tick, cls) ==
    LET now == clock + tick
        p == ProcessLocals(sd, now, cls)
        failed == HeartRateRaises(sd)
    IN  /\ HasData(sd)
        /\ clock' = now
        /\ IF failed
           THEN /\ ApplyProcessUntilHeartRate(p)
                /\ ret' = [op |-> "process", raised |-> TRUE]
           ELSE /\ ApplyProcess(p)
                /\ ret' = [op |-> "process", raised |-> FALSE, metrics |-> p.metrics]
        /\ call' = [op |-> "process", processed |-> ~failed, failed |-> failed,
                    supported |-> FALSE,
                    sd |-> sd, now |-> now, p |-> Observed(p),
                    cls |-> IF UsesClassifier THEN cls ELSE NotProcessed]
        /\ heuristic_calls' = Recorded(p.heuristic)
        /\ nsamples' = nsamples + 1
        /\ UNCHANGED <<analyzerVars, mode, profileVars, activity_model, mesh,
                       sensor_data, serverVars>>

\* line 471: update_joint_positions raises out of analyze, before any
\* assignment to the analyzer
AnalyzeRaises(exercise, pitch, roll, sd, now) ==
    /\ clock' = now
    /\ ret' = [op |-> "analyze", raised |-> TRUE]
    /\ call' = [op |-> "analyze", processed |-> FALSE, failed |-> FALSE,
                supported |-> FALSE, exercise |-> exercise, pitch |-> pitch, roll |-> roll,
                sd |-> sd, now |-> now, p |-> NotProcessed, cls |-> NotProcessed]
    /\ nsamples' = nsamples + 1
    /\ UNCHANGED <<analyzerVars, mode, stepVars, energyVars, latest_metrics,
                   profileVars, activity_model, mesh, sensor_data, serverVars,
                   heuristic_calls>>

\* lines 458-514, update_joint_positions having returned
AnalyzeReturns(exercise, pitch, roll, sd, now, cls) ==
    LET supported == exercise \in SupportedExercises
        a == AnalyzeLocals(exercise, pitch, roll, sd, now)
        called == supported /\ HasData(sd)
        failed == called /\ HeartRateRaises(sd)
        processed == called /\ ~failed
        p == IF called THEN ProcessLocals(sd, now, cls) ELSE NotProcessed
    IN  /\ clock' = now
        /\ mesh' = update_joint_positions(pitch, roll, exercise)
        /\ movement_history' = HistoryAfter(pitch, roll, now)
        /\ IF supported
           THEN /\ rep_state' = a.rep_state
                /\ last_rep_time' = a.last_rep
                /\ rep_durations' = a.durs
                /\ range_of_motion' = a.rom
                /\ current_form_score' = a.score
                /\ current_feedback' = a.feedback
                /\ ret' = [op |-> "analyze", raised |-> FALSE, score |-> a.score,
                           feedback |-> a.feedback,
                           rep_detected |-> a.rep_detected]
           ELSE /\ range_of_motion' = RomAfter(pitch)
                /\ ret' = [op |-> "analyze", raised |-> FALSE,
                           score |-> UnsupportedResult.score,
                           feedback |-> UnsupportedResult.feedback,
                           rep_detected |-> UnsupportedResult.rep_detected]
                /\ UNCHANGED <<rep_state, last_rep_time, rep_durations,
                               current_form_score, current_feedback>>
        /\ IF processed THEN ApplyProcess(p)
           ELSE IF failed THEN ApplyProcessUntilHeartRate(p)
           ELSE UNCHANGED <<stepVars, energyVars, latest_metrics>>
        /\ call' = [op |-> "analyze", processed |-> processed, failed |-> failed,
                    supported |-> supported, exercise |-> exercise,
                    pitch |-> pitch, roll |-> roll, sd |-> sd, now |-> now,
                    p |-> IF called THEN Observed(p) ELSE NotProcessed,
                    cls |-> IF called /\ UsesClassifier THEN cls ELSE NotProcessed]
        /\ heuristic_calls' = Recorded(IF called THEN p.heuristic ELSE << >>)
        /\ nsamples' = nsamples + 1
        /\ UNCHANGED <<mode, profileVars, activity_model, sensor_data, serverVars>>

\* lines 458-514
analyze(exercise, pitch, roll, sd, tick, cls) ==
    IF MeshRaises(exercise)
    THEN AnalyzeRaises(exercise, pitch, roll, sd, clock + tick)
    ELSE AnalyzeReturns(exercise, pitch, roll, sd, clock + tick, cls)

\* lines 750-757: each argument is None (<< >>) or a value
set_user_profile(height_cm, weight_kg, age) ==
    /\ user_height_cm' = IF height_cm # << >> THEN height_cm[1] ELSE user_height_cm
    /\ user_weight_kg' = IF weight_kg # << >> THEN weight_kg[1] ELSE user_weight_kg
    /\ user_age' = IF age # << >> THEN age[1] ELSE user_age
    /\ ret' = [op |-> "set_user_profile"]
    /\ call' = [op |-> "set_user_profile", processed |-> FALSE, failed |-> FALSE,
                supported |-> FALSE]
    /\ UNCHANGED <<analyzerVars, mode, stepVars, energyVars, latest_metrics,
                   activity_model, mesh, sensor_data, serverVars, heuristic_calls, clock,
                   nsamples>>

\* lines 759-762
set_mode(m) ==
    /\ mode' = IF m \in {"normal", "workout"} THEN m ELSE mode
    /\ ret' = [op |-> "set_mode"]
    /\ call' = [op |-> "set_mode", processed |-> FALSE, failed |-> FALSE,
                supported |-> FALSE, arg |-> m]
    /\ UNCHANGED <<analyzerVars, stepVars, energyVars, latest_metrics, profileVars,
                   activity_model, mesh, sensor_data, serverVars, heuristic_calls, clock,
                   nsamples>>

\* server.py lines 520-536 (no ESP32 connected, so nothing is forwarded):
\* the handler stores the name and assigns rep_state alone
set_exercise(exercise) ==
    /\ sensor_data' = [sensor_data EXCEPT !.exercise = exercise]
    /\ rep_state' = "up"
    /\ ret' = [op |-> "set_exercise"]
    /\ call' = [op |-> "set_exercise", processed |-> FALSE, failed |-> FALSE,
                supported |-> FALSE, arg |-> exercise]
    /\ UNCHANGED <<movement_history, last_rep_time, rep_durations, range_of_motion,
                   current_form_score, current_feedback, mode, stepVars,
                   energyVars, latest_metrics, profileVars, activity_model, mesh,
                   serverVars, heuristic_calls, clock, nsamples>>

\* lines 952-973, called on its own: the method reads nothing but its
\* arguments and assigns nothing
ClassifyHeuristically(cadence_spm, acc_mag, gyro_mag) ==
    LET made == HeuristicCallOf(cadence_spm, acc_mag, gyro_mag)
    IN  /\ heuristic_calls' = Recorded(<<made>>)
        /\ ret' = [op |-> "classify", raised |-> FALSE,
                   activity |-> made.result.activity,
                   confidence |-> made.result.confidence]
        /\ call' = [op |-> "classify", processed |-> FALSE, failed |-> FALSE,
                    supported |-> FALSE, cadence_spm |-> cadence_spm,
                    acc_mag |-> acc_mag, gyro_mag |-> gyro_mag]
        /\ nsamples' = nsamples + 1
        /\ UNCHANGED <<analyzerVars, mode, stepVars, energyVars, latest_metrics,
                       profileVars, activity_model, mesh, sensor_data, serverVars, clock>>

(***************************************************************************)
(* Step detector: samples of two magnitudes at free timestamps             *)
(***************************************************************************)
MaxStepSamples == 6
StepMags == {100, 200}
StepTimes == {10, 13, 33}

InitStep == InitWith("none")

NextStep ==
    \E mag \in StepMags, ts \in StepTimes :
        /\ nsamples < MaxStepSamples
        /\ _process_activity_and_steps(Sample(mag, 0, 0, TsNum(ts)), 1, ClsRaise)
        /\ UNCHANGED producers

SpecStep == InitStep /\ [][NextStep]_vars


\* C1: processing a sample never decreases step_count and adds at most 1.
C1_StepCountMonotone ==
    [][call'.processed =>
          (step_count' >= step_count /\ step_count' <= step_count + 1)]_vars

\* C1 witness: the sample just processed was accepted as a step and made
\* the step count grow to 1.
C1_Witness ==
    /\ call.processed
    /\ call.p.step_detected
    /\ step_count = 1

\* C2: a step accepted after an earlier accepted step lies 0.3 s to 2.0 s
\* (inclusive) after it and becomes the new last step time; a candidate peak
\* outside that window leaves _last_step_time and step_count unchanged.
C2_Refractory ==
    [][(call'.processed /\ _last_step_time # << >>) =>
          LET delta == call'.p.ts - _last_step_time[1]
          IN  /\ call'.p.step_detected =>
                    /\ delta >= 3 /\ delta <= 20
                    /\ _last_step_time' = <<call'.p.ts>>
              /\ (call'.p.is_peak /\ (delta < 3 \/ delta > 20)) =>
                    /\ ~call'.p.step_detected
                    /\ _last_step_time' = _last_step_time
                    /\ step_count' = step_count]_vars

\* C2 witness: a second step accepted exactly 2.0 s after the previous one.
C2_Witness ==
    /\ call.processed
    /\ call.p.step_detected
    /\ call.p.time_since_last = <<20>>
    /\ step_count = 1

(***************************************************************************)
(* Energy estimator: samples with and without a heart rate, at free        *)
(* timestamps, interleaved with profile updates                            *)
(***************************************************************************)
MaxEnergySamples == 3
EnergyHeartRates == {0, 40, 140}
EnergyTimes == {10, 13, 33}
EnergyMotions == {<<100, 0>>, <<130, 310>>}
EnergyWeights == {<<-70>>, <<70>>}
EnergyAges == {<< >>, <<40>>}

InitEnergy == InitWith("none")

EnergySample ==
    \E hr \in EnergyHeartRates, ts \in EnergyTimes, m \in EnergyMotions :
        /\ nsamples < MaxEnergySamples
        /\ _process_activity_and_steps(Sample(m[1], m[2], hr, TsNum(ts)), 1, ClsRaise)
        /\ UNCHANGED producers

EnergyProfile ==
    \E w \in EnergyWeights, a \in EnergyAges :
        set_user_profile(<< >>, w, a) /\ UNCHANGED producers

NextEnergy == EnergySample \/ EnergyProfile

SpecEnergy == InitEnergy /\ [][NextEnergy]_vars

\* C3: the increment each processed sample adds to the calorie accumulator
\* is >= 0, so the accumulator never decreases, whatever profile was set.
C3_CaloriesNonDecreasing ==
    [][call'.processed =>
          (call'.p.calories_increment >= 0 /\ _calories_accum' >= _calories_accum)]_vars

\* C4: a sample whose timestamp is earlier than that of the previously
\* processed sample has elapsed time 0 and calorie increment 0, and leaves
\* the accumulator and the published caloriesTotal unchanged.
C4_ClockSkewClamped ==
    [][(call'.processed /\ _last_metric_time # << >>
          /\ call'.p.ts < _last_metric_time[1]) =>
          /\ call'.p.dt = 0
          /\ call'.p.calories_increment = 0
          /\ _calories_accum' = _calories_accum
          /\ latest_metrics'.caloriesTotal = latest_metrics.caloriesTotal]_vars

\* C4 witness: after calories were accumulated, a sample with a valid heart
\* rate arrived 2.3 s in the past.
C4_Witness ==
    /\ call.processed
    /\ call.p.ts = 10
    /\ _calories_accum > 0
    /\ call.p.hr = 140
    /\ call.p.dt = 0
    /\ nsamples = 3


(***************************************************************************)
(* Classifier bridge: an injected classifier whose calls return any label  *)
(* and probability or raise, in both modes                                 *)
(***************************************************************************)
MaxActivitySamples == 4
ActivityModels == {"none", "proba", "noproba"}
ActivityMotions == {<<100, 0>>, <<100, 90>>, <<130, 310>>}
ActivityTimes == {10, 150}
ActivityOutcomes == {ClsRaise, ClsOk("Running", 1150), ClsOk("jumping", 300)}
ActivityModes == {"normal", "workout", "rest"}

InitActivity == \E model \in ActivityModels : InitWith(model)

ActivitySample ==
    \E m \in ActivityMotions, ts \in ActivityTimes,
       cls \in (IF UsesClassifier THEN ActivityOutcomes ELSE {ClsRaise}) :
        /\ nsamples < MaxActivitySamples
        /\ _process_activity_and_steps(Sample(m[1], m[2], 0, TsNum(ts)), 1, cls)
        /\ UNCHANGED producers

ActivityMode == \E m \in ActivityModes : set_mode(m) /\ UNCHANGED producers

NextActivity == ActivitySample \/ ActivityMode

SpecActivity == InitActivity /\ [][NextActivity]_vars

\* C5: after a processed sample with cadence < 20, accMag < 1.05 and
\* gyroMag < 80 the snapshot publishes 'stationary' with confidence 0.9,
\* whatever the classifier returned and whatever the mode.
C5_StationaryOverride ==
    (call.processed /\ call.p.cadence_spm < 20 /\ call.p.acc_magnitude < 105
        /\ call.p.gyro_magnitude < 80)
    => (latest_metrics.activity = "stationary"
        /\ latest_metrics.activityConfidence = 1080)

\* C5 witness: the classifier answered 'Running' for an idle sample.
C5_Witness ==
    /\ call.processed
    /\ call.p.cadence_spm < 20
    /\ call.p.acc_magnitude < 105
    /\ call.p.gyro_magnitude < 80
    /\ call.cls = ClsOk("Running", 1150)
    /\ latest_metrics.activity = "stationary"


(***************************************************************************)
(* Rep detection: analyze with every exercise name on a few poses          *)
(***************************************************************************)
MaxRepSamples == 3
RepSample == Sample(60, 210, 0, TsNum(0))
RepExerciseNames ==
    {"bicep_curl", "lateral_raise", "shoulder_press", "running", "squat", "yoga"}
RepInputs ==
    {<<10, 0, NoData>>, <<70, 0, NoData>>, <<125, 15, NoData>>,
     <<70, 0, RepSample>>, <<3, -15, RepSample>>}

InitRep == InitWith("none")

NextRep ==
    \E exercise \in RepExerciseNames, in \in RepInputs :
        /\ nsamples < MaxRepSamples
        /\ analyze(exercise, in[1], in[2], in[3], 1, ClsRaise)
        /\ UNCHANGED producers

SpecRep == InitRep /\ [][NextRep]_vars

(***************************************************************************)
(* The bicep-curl scenario: pitch 0, 30, 70, 95, 60, 15, 3 with roll 0 on  *)
(* a fresh session, with or without sensor data, at two sample spacings    *)
(***************************************************************************)
CurlScript == <<0, 30, 70, 95, 60, 15, 3>>
CurlSample == Sample(100, 100, 70, [kind |-> "missing", v |-> 0])
CurlTicks == {1, 15}

InitCurl == InitWith("none")

NextCurl ==
    \E sd \in {NoData, CurlSample}, tick \in CurlTicks :
        /\ nsamples < Len(CurlScript)
        /\ analyze("bicep_curl", CurlScript[nsamples + 1], 0, sd, tick, ClsRaise)
        /\ UNCHANGED producers

SpecCurl == InitCurl /\ [][NextCurl]_vars

\* C6: in the scenario exactly one sample reports a rep, the 6th (pitch 15),
\* and the rep state is 'down' after the last sample.
C6_CurlRoundTrip ==
    call.op = "analyze" =>
        /\ ~ret.raised
        /\ ret.rep_detected <=> (nsamples = 6)
        /\ (nsamples = Len(CurlScript)) => (rep_state = "down")

\* C7: in the scenario the feedback of the peak sample (the 4th, pitch 95)
\* contains the 'perfect curl height' tag.
C7_PerfectAtPeak ==
    (call.op = "analyze" /\ nsamples = 4) =>
        /\ call.pitch = 95
        /\ ~ret.raised
        /\ \E i \in DOMAIN ret.feedback : ret.feedback[i] = "Perfect curl height!"

\* C8: for bicep_curl, lateral_raise, shoulder_press and running, analyze
\* returns repDetected = true exactly when the sample moved the rep state
\* from 'up' to 'down' in one of the three rep exercises.
C8_RepOnlyOnUpDown ==
    [][(call'.op = "analyze" /\ call'.exercise \in
            {"bicep_curl", "lateral_raise", "shoulder_press", "running"}) =>
          /\ ~ret'.raised
          /\ ret'.rep_detected <=>
                (call'.exercise # "running" /\ rep_state = "up" /\ rep_state' = "down")]_vars

\* C8 witness: a lateral raise completed by lowering after a raise.
C8_Witness ==
    /\ call.op = "analyze"
    /\ call.exercise = "lateral_raise"
    /\ ~ret.raised
    /\ ret.rep_detected
    /\ rep_state = "down"
    /\ nsamples = 3
    /\ rep_durations # << >>

\* C9: analyze with an unrecognized exercise name changes nothing of the
\* session state.
C9_UnrecognizedNoMutation ==
    [][(call'.op = "analyze" /\ call'.exercise \notin
            {"bicep_curl", "lateral_raise", "shoulder_press", "running"}) =>
          UNCHANGED <<movement_history, range_of_motion, rep_state, rep_durations,
                      _step_buffer, step_count, _calories_accum, latest_metrics>>]_vars

\* C10: analyze with an unrecognized exercise name does not raise, returns
\* score 0, one feedback tag and repDetected = false, and leaves the rep
\* phase, last_rep_time and the rep durations unchanged.
C10_UnrecognizedNeutral ==
    [][(call'.op = "analyze" /\ call'.exercise \notin
            {"bicep_curl", "lateral_raise", "shoulder_press", "running"}) =>
          /\ ~ret'.raised
          /\ ret'.score = 0
          /\ Len(ret'.feedback) = 1
          /\ ~ret'.rep_detected
          /\ UNCHANGED <<rep_state, last_rep_time, rep_durations>>]_vars


(***************************************************************************)
(* Classifier bridge, continued                                            *)
(***************************************************************************)
\* C11: in normal mode, a sample processed with a classifier whose call
\* raises leaves the step buffer, step count, last step time, calorie
\* total, last metric time, rep history and snapshot exactly as processing
\* it with no classifier would, and the call returns normally.
C11_ClassifierFailureIsolated ==
    [][(call'.processed /\ UsesClassifier /\ call'.cls = ClsRaise) =>
          LET q == ProcessLocalsWith("none", mode, call'.sd, call'.now, ClsRaise)
          IN  /\ _step_buffer' = q.buf
              /\ step_count' = q.step_count
              /\ _last_step_time' = q.last_step
              /\ _calories_accum' = q.accum
              /\ _last_metric_time' = <<q.ts>>
              /\ latest_metrics' = q.metrics
              /\ ~ret'.raised
              /\ ret'.metrics = q.metrics
              /\ UNCHANGED <<rep_state, rep_durations, last_rep_time,
                             movement_history>>]_vars

\* C11 witness: the classifier raised on a sample the heuristic calls
\* running, after calories had been accumulated.
C11_Witness ==
    /\ call.processed
    /\ activity_model = "proba"
    /\ mode = "normal"
    /\ call.cls = ClsRaise
    /\ latest_metrics.activity = "running"
    /\ _calories_accum > 0

\* C12: a sample processed in workout mode never invokes the classifier and
\* publishes the heuristic classification followed by the stationary
\* override, with or without a classifier; set_mode with a value other than
\* 'normal' and 'workout' leaves the mode unchanged.
C12_WorkoutHeuristicOnly ==
    [][/\ (call'.processed /\ mode = "workout") =>
             LET cad == call'.p.cadence_spm
                 acc == call'.p.acc_magnitude
                 gyro == call'.p.gyro_magnitude
                 h == SafetyOverride(
                          _simple_activity_classification(cad, acc, gyro),
                          cad, acc, gyro)
             IN  /\ call'.cls = NotProcessed
                 /\ latest_metrics'.activity = h.activity
                 /\ latest_metrics'.activityConfidence = h.confidence
       /\ (call'.op = "set_mode" /\ call'.arg \notin {"normal", "workout"}) =>
             mode' = mode]_vars

\* C12 witness: with a classifier present, a sample processed in workout
\* mode was published as running.
C12_Witness ==
    /\ call.processed
    /\ mode = "workout"
    /\ activity_model = "proba"
    /\ latest_metrics.activity = "running"


(***************************************************************************)
(* Form score: curls and presses between a low and an over-extended pose,  *)
(* fast enough for every penalty to apply at once                          *)
(***************************************************************************)
MaxScoreSamples == 6
ScoreExerciseNames == {"bicep_curl", "shoulder_press", "yoga"}
ScoreInputs == {<<3, 0, NoData>>, <<125, 15, RepSample>>}

InitScore == InitWith("none")

NextScore ==
    \E exercise \in ScoreExerciseNames, i \in ScoreInputs :
        /\ nsamples < MaxScoreSamples
        /\ analyze(exercise, i[1], i[2], i[3], 1, ClsRaise)
        /\ UNCHANGED producers

SpecScore == InitScore /\ [][NextScore]_vars

\* C13: the form score analyze returns, and the one it stores, is within
\* 0..100 for every exercise name, input and session state.
C13_ScoreInRange ==
    /\ current_form_score \in 0..100
    /\ (call.op = "analyze" /\ ~ret.raised) => ret.score \in 0..100

\* C13 witness: a curl raised too high, too fast, with body swing, a rolled
\* wrist, a jerky history and a too fast tempo returns the lowest score, 10.
C13_Witness ==
    /\ call.op = "analyze"
    /\ call.exercise = "bicep_curl"
    /\ ~ret.raised
    /\ ret.score = 10
    /\ Len(ret.feedback) >= 6


\* C14: the published activity is always one of stationary, walking and
\* running, and the published confidence is always within [0, 1].
C14_PublishedActivityInEnum ==
    /\ latest_metrics.activity \in {"stationary", "walking", "running"}
    /\ latest_metrics.activityConfidence \in 0..1200


(***************************************************************************)
(* Data flow of analyze                                                    *)
(***************************************************************************)
\* C15: every sample passed to analyze with its sensor data, whatever the
\* exercise name, is appended to the step buffer, goes through step
\* detection, classification and calorie accumulation, and the snapshot is
\* recomputed before analyze returns.
C15_EverySampleProcessed ==
    [][(call'.op = "analyze" /\ HasData(call'.sd)) =>
          /\ call'.processed
          /\ Len(_step_buffer') = Len(_step_buffer) + 1
          /\ _last_metric_time' = <<call'.p.ts>>
          /\ latest_metrics'.stepDetected = call'.p.step_detected
          /\ latest_metrics'.activity = call'.p.activity]_vars


(***************************************************************************)
(* Snapshot: samples with a numeric or a non-numeric heart rate, passed to *)
(* analyze (which swallows a failure of the analytics, lines 506-512) or   *)
(* to _process_activity_and_steps directly                                 *)
(***************************************************************************)
MaxSnapshotSamples == 6
SnapshotMags == {100, 200}
SnapshotSamples ==
    {Sample(mag, 0, 70, TsNum(0)) : mag \in SnapshotMags}
        \cup {BadHeartRateSample(mag, 0, TsNum(0)) : mag \in SnapshotMags}

InitSnapshot == InitWith("none")

SnapshotAnalyze ==
    \E sd \in SnapshotSamples :
        /\ nsamples < MaxSnapshotSamples
        /\ analyze("running", 0, 0, sd, 5, ClsRaise)
        /\ UNCHANGED producers

SnapshotProcess ==
    \E sd \in SnapshotSamples :
        /\ nsamples < MaxSnapshotSamples
        /\ _process_activity_and_steps(sd, 5, ClsRaise)
        /\ UNCHANGED producers

NextSnapshot == SnapshotAnalyze \/ SnapshotProcess

SpecSnapshot == InitSnapshot /\ [][NextSnapshot]_vars

\* C16: whenever analyze or _process_activity_and_steps has returned, also
\* for a sample whose processing failed partway and was swallowed, the
\* snapshot agrees with the session: stepCount is step_count, caloriesTotal
\* is the rounded accumulator and stepDetected describes the sample just
\* processed.
C16_SnapshotConsistent ==
    (call.op \in {"analyze", "process"} /\ ~ret.raised) =>
        /\ latest_metrics.stepCount = step_count
        /\ latest_metrics.caloriesTotal = CaloriesRounded(_calories_accum)
        /\ (call.processed \/ call.failed) =>
               latest_metrics.stepDetected = call.p.step_detected


(***************************************************************************)
(* Exercise switches: the server passes every frame to analyze with the    *)
(* selected exercise (server.py lines 127-134) unless it is 'Ready'        *)
(***************************************************************************)
MaxExerciseSamples == 4
ExerciseNames == {"bicep_curl", "lateral_raise"}
ExerciseInputs == {<<10, 0>>, <<70, 0>>}
ExerciseTicks == {10, 30}

InitExercise == InitWith("none")

ExerciseSwitch == \E exercise \in ExerciseNames : set_exercise(exercise) /\ UNCHANGED producers

ExerciseFrame ==
    \E i \in ExerciseInputs, tick \in ExerciseTicks :
        /\ nsamples < MaxExerciseSamples
        /\ sensor_data.exercise # "Ready"
        /\ analyze(sensor_data.exercise, i[1], i[2], NoData, tick, ClsRaise)
        /\ UNCHANGED producers

NextExercise == ExerciseSwitch \/ ExerciseFrame

SpecExercise == InitExercise /\ [][NextExercise]_vars

\* C17: after set_exercise the rep phase, the last rep time, the rep
\* durations and the range of motion are back at their initial values.
C17_SwitchResetsRepState ==
    [][call'.op = "set_exercise" =>
          /\ rep_state' = "up"
          /\ last_rep_time' = << >>
          /\ rep_durations' = << >>
          /\ range_of_motion' = [min |-> 0, max |-> 0]]_vars


(***************************************************************************)
(* Energy path selection: heart rates around the limits 0 and 200 and no   *)
(* heart rate at all, at rest, walking and running                         *)
(***************************************************************************)
MaxPathSamples == 3
PathHeartRates == {-5, 0, 1, 199, 200}
PathMotions == {<<100, 0>>, <<110, 0>>, <<130, 310>>}
PathTimes == {10, 13}
PathSamples ==
    {Sample(mo[1], mo[2], hr, TsNum(ts)) :
        mo \in PathMotions, hr \in PathHeartRates, ts \in PathTimes}
    \cup {NoHeartRateSample(mo[1], mo[2], TsNum(ts)) :
        mo \in PathMotions, ts \in PathTimes}

InitPath == InitWith("none")

NextPath ==
    \E sd \in PathSamples :
        /\ nsamples < MaxPathSamples
        /\ _process_activity_and_steps(sd, 1, ClsRaise)
        /\ UNCHANGED producers

SpecPath == InitPath /\ [][NextPath]_vars

\* C18: with a heart rate in (0, 200) and elapsed time > 0 the increment is
\* (-55.0969 + 0.6309 HR + 0.1988 weight + 0.2017 age) / 4.184 per minute
\* (not below 0), whatever the activity; otherwise (heart rate missing,
\* <= 0 or >= 200, or no elapsed time) it is MET * weight * hours with MET
\* 1.0 at rest, 3.5 walking and 9.8 running; the call returns normally.
C18_EnergyPathSelection ==
    [][call'.processed =>
          LET hr == call'.p.hr
              dt == call'.p.dt
              activity == latest_metrics'.activity
              inc == _calories_accum' - _calories_accum
              formula == -550969 + 6309 * hr + 1988 * user_weight_kg
                           + 2017 * user_age
              met == CASE activity = "stationary" -> 10
                       [] activity = "walking" -> 35
                       [] activity = "running" -> 98
          IN  /\ ~ret'.raised
              /\ ("heartRate" \notin DOMAIN call'.sd) => hr = 0
              /\ IF hr > 0 /\ hr < 200 /\ dt > 0
                 THEN inc = 15 * Max2(0, formula) * dt
                 ELSE inc = 1046 * met * user_weight_kg * dt]_vars

\* C18 witness: a running sample with heart rate 200, 0.3 s after the
\* previous one, was charged 9.8 MET.
C18_Witness ==
    /\ call.processed
    /\ call.p.hr = 200
    /\ call.p.dt = 3
    /\ latest_metrics.activity = "running"
    /\ _calories_accum = 1046 * 98 * 70 * 3


(***************************************************************************)
(* The heart-rate formula on the example HR 140, 70 kg, 30 years.  The     *)
(* increment is calories_per_min * minutes (line 917): a sample with       *)
(* elapsed time dt adds 15 * dt CalUnit per unit of 10^4 * 4.184 *         *)
(* calories_per_min, so the increment of one minute, in 0.01 kcal, is      *)
(* increment / (15 * dt) * 10 / 4184.                                      *)
(***************************************************************************)
\* C19 (as stated): with heart rate 140, weight 70 kg and age 30 the
\* calorie increment per elapsed minute is approximately 9.48 kcal.
C19_ExampleAsStated ==
    [][(call'.processed /\ call'.p.used_hr /\ call'.p.hr = 140
          /\ user_weight_kg = 70 /\ user_age = 30) =>
          LET perMin == (_calories_accum' - _calories_accum) \div (15 * call'.p.dt)
          IN  Abs(RoundHalfEven(perMin * 10, 4184) - 948) <= 5]_vars

\* C19 (amended): with heart rate 140, weight 70 kg and age 30 the calorie
\* increment is proportional to the elapsed time and amounts to 12.71 kcal
\* per elapsed minute: (-55.0969 + 88.326 + 13.916 + 6.051) / 4.184.
C19_ExampleAmended ==
    [][(call'.processed /\ call'.p.used_hr /\ call'.p.hr = 140
          /\ user_weight_kg = 70 /\ user_age = 30) =>
          LET inc == _calories_accum' - _calories_accum
              perMin == inc \div (15 * call'.p.dt)
          IN  /\ inc = 15 * perMin * call'.p.dt
              /\ perMin = 531961
              /\ RoundHalfEven(perMin * 10, 4184) = 1271]_vars

\* C19 witness: a sample with heart rate 140 arrived 2.3 s after the
\* previous one, with the default profile.
C19_Witness ==
    /\ call.processed
    /\ call.p.used_hr
    /\ call.p.hr = 140
    /\ call.p.dt = 23
    /\ user_weight_kg = 70
    /\ user_age = 30
    /\ call.p.calories_increment = 15 * 531961 * 23


(***************************************************************************)
(* Timestamps: samples whose timestamp is missing, empty, unparsable or a  *)
(* number, 0.5 s of wall-clock time apart                                  *)
(***************************************************************************)
MaxTimestampSamples == 5
TimestampMags == {100, 200}
TimestampValues ==
    {[kind |-> "missing", v |-> 0], [kind |-> "empty", v |-> 0],
     [kind |-> "bad", v |-> 0], TsNum(7)}

InitTimestamp == InitWith("none")

NextTimestamp ==
    \E mag \in TimestampMags, ts \in TimestampValues :
        /\ nsamples < MaxTimestampSamples
        /\ _process_activity_and_steps(Sample(mag, 0, 0, ts), 5, ClsRaise)
        /\ UNCHANGED producers

SpecTimestamp == InitTimestamp /\ [][NextTimestamp]_vars

\* C20: a sample whose timestamp is missing, empty or unparsable is
\* processed with the current time in its place: nothing is raised, the
\* sample is appended to the step buffer under that time and the snapshot
\* is recomputed from the state the sample left.
C20_BadTimestampAccepted ==
    [][(call'.op = "process"
          /\ call'.sd.timestamp.kind \in {"missing", "empty", "bad"}) =>
          /\ call'.processed
          /\ ~ret'.raised
          /\ call'.p.ts = clock'
          /\ _step_buffer' = BoundedAppend(_step_buffer,
                                 <<clock', call'.p.acc_magnitude>>, StepBufferMaxLen)
          /\ _last_metric_time' = <<clock'>>
          /\ latest_metrics' = ret'.metrics
          /\ latest_metrics'.stepCount = step_count'
          /\ latest_metrics'.stepDetected = call'.p.step_detected
          /\ latest_metrics'.caloriesTotal = CaloriesRounded(_calories_accum')]_vars

\* C20 witness: a sample with an unparsable timestamp was accepted as a
\* step at the substituted time.
C20_Witness ==
    /\ call.processed
    /\ call.sd.timestamp.kind = "bad"
    /\ call.p.step_detected
    /\ _last_step_time = <<clock>>
    /\ Len(_step_buffer) = 5


(***************************************************************************)
(* Heuristic classification called repeatedly, on its own and from         *)
(* _process_activity_and_steps, between changes of the session state       *)
(***************************************************************************)
MaxHeuristicCalls == 3
HeuristicCadences == {6, 12, 80}
HeuristicAccMags == {100, 130}
HeuristicGyroMags == {0, 310}
HeuristicModes == {"normal", "workout"}

InitHeuristic == InitState("none", TRUE)

HeuristicDirect ==
    \E c \in HeuristicCadences, a \in HeuristicAccMags, g \in HeuristicGyroMags :
        /\ nsamples < MaxHeuristicCalls
        /\ ClassifyHeuristically(c, a, g)
        /\ UNCHANGED producers

HeuristicSample ==
    \E a \in HeuristicAccMags, g \in HeuristicGyroMags :
        /\ nsamples < MaxHeuristicCalls
        /\ _process_activity_and_steps(
               Sample(a, g, 0, [kind |-> "missing", v |-> 0]), 5, ClsRaise)
        /\ UNCHANGED producers

HeuristicMode == \E m \in HeuristicModes : set_mode(m) /\ UNCHANGED producers

NextHeuristic == HeuristicDirect \/ HeuristicSample \/ HeuristicMode

SpecHeuristic == InitHeuristic /\ [][NextHeuristic]_vars

AnalyzerIdle ==
    UNCHANGED <<analyzerVars, mode, stepVars, energyVars, latest_metrics,
                profileVars, activity_model, mesh, heuristic_calls, clock,
                ret, call, nsamples>>

\* a request of the server's API: it is the last call, and it leaves the
\* analyzer alone
Request(name) ==
    /\ ret' = [op |-> name]
    /\ call' = [op |-> name, processed |-> FALSE, failed |-> FALSE,
                supported |-> FALSE]
    /\ UNCHANGED <<analyzerVars, mode, stepVars, energyVars, latest_metrics,
                   profileVars, activity_model, mesh, heuristic_calls, clock,
                   nsamples>>

DemoIdle == UNCHANGED <<demo_mode, running, demo_exercise, rep_count>>

At(t, pc) == [producers EXCEPT ![t].pc = pc]

Returned(t, pc, rep_detected) ==
    [producers EXCEPT ![t].pc = pc, ![t].rep_detected = rep_detected]

Esp32Thread ==
    [kind |-> "esp32", pc |-> "connecting", exercise |-> << >>,
     rep_detected |-> FALSE]
DemoTask(exercise) ==
    [kind |-> "demo", pc |-> "loop", exercise |-> <<exercise>>,
     rep_detected |-> FALSE]

Calling == {t \in DOMAIN producers : producers[t].pc = "calling"}

\* server.py lines 250-269 and form_analyzer.py lines 200-204: no test for
\* a thread that already runs
connect_esp32_endpoint ==
    /\ demo_mode' = FALSE
    /\ running' = IF demo_mode THEN FALSE ELSE running
    /\ demo_exercise' = IF demo_mode THEN "Ready" ELSE demo_exercise
    /\ producers' = Append(producers, Esp32Thread)
    /\ UNCHANGED <<connected_to_esp32, rep_count, sensor_data>>
    /\ Request("connect_esp32")

\* server.py lines 272-277
disconnect_esp32 ==
    /\ connected_to_esp32' = FALSE
    /\ DemoIdle
    /\ UNCHANGED <<producers, sensor_data>>
    /\ Request("disconnect_esp32")

\* server.py lines 279-326 and form_analyzer.py lines 188-198, 736-739: no
\* test for a task that already runs
start_demo(exercise) ==
    /\ connected_to_esp32' = FALSE
    /\ demo_mode' = TRUE
    /\ sensor_data' = [sensor_data EXCEPT !.exercise = exercise]
    /\ running' = TRUE
    /\ demo_exercise' = exercise
    /\ rep_count' = 0
    /\ producers' = Append(producers, DemoTask(exercise))
    /\ Request("start_demo")

\* server.py lines 328-338 and form_analyzer.py lines 200-204, 741-744
stop_demo ==
    /\ demo_mode' = FALSE
    /\ running' = FALSE
    /\ demo_exercise' = "Ready"
    /\ UNCHANGED <<connected_to_esp32, rep_count, producers, sensor_data>>
    /\ Request("stop_demo")

\* server.py lines 483-493; last_rep_count of the analyzer is read nowhere
reset_reps ==
    /\ sensor_data' = [sensor_data EXCEPT !.repCount = 0]
    /\ UNCHANGED <<serverVars, producers>>
    /\ Request("reset_reps")

\* server.py lines 71-73: the connection is made
Esp32Connects(t) ==
    /\ producers[t].kind = "esp32" /\ producers[t].pc = "connecting"
    /\ connected_to_esp32' = TRUE
    /\ producers' = At(t, "loop")
    /\ DemoIdle
    /\ UNCHANGED sensor_data
    /\ AnalyzerIdle

\* server.py lines 71, 202-206: the connection fails
Esp32ConnectFails(t) ==
    /\ producers[t].kind = "esp32" /\ producers[t].pc = "connecting"
    /\ connected_to_esp32' = FALSE
    /\ producers' = At(t, "done")
    /\ DemoIdle
    /\ UNCHANGED sensor_data
    /\ AnalyzerIdle

\* server.py line 79: while connected_to_esp32
Esp32LoopTest(t) ==
    /\ producers[t].kind = "esp32" /\ producers[t].pc = "loop"
    /\ producers' = At(t, IF connected_to_esp32 THEN "receiving" ELSE "done")
    /\ UNCHANGED <<serverVars, sensor_data>>
    /\ AnalyzerIdle

\* server.py lines 81-82: a frame arrives within the 5 s
Esp32Receives(t) ==
    /\ producers[t].kind = "esp32" /\ producers[t].pc = "receiving"
    /\ producers' = At(t, "calling")
    /\ UNCHANGED <<serverVars, sensor_data>>
    /\ AnalyzerIdle

\* server.py lines 81, 198-199: no frame within the 5 s
Esp32TimesOut(t) ==
    /\ producers[t].kind = "esp32" /\ producers[t].pc = "receiving"
    /\ producers' = At(t, "loop")
    /\ UNCHANGED <<serverVars, sensor_data>>
    /\ AnalyzerIdle

\* server.py lines 126-151: the call of the analyzer returns or raises;
\* in Ready mode what _process_activity_and_steps raises is swallowed
Esp32Frame(t, pitch, roll, sd, tick) ==
    /\ producers[t].kind = "esp32" /\ producers[t].pc = "calling"
    /\ IF sensor_data.exercise # "Ready"
       THEN /\ analyze(sensor_data.exercise, pitch, roll, sd, tick, ClsRaise)
            /\ producers' =
                  Returned(t, IF ret'.raised THEN "raised" ELSE "publishing",
                           ~ret'.raised /\ ret'.rep_detected)
       ELSE /\ _process_activity_and_steps(sd, tick, ClsRaise)
            /\ producers' = At(t, "resetting")

\* server.py lines 137-143: the repetition the call detected is counted
Esp32Publishes(t) ==
    /\ producers[t].kind = "esp32" /\ producers[t].pc = "publishing"
    /\ sensor_data' =
          IF producers[t].rep_detected
          THEN [sensor_data EXCEPT !.repCount = sensor_data.repCount + 1]
          ELSE sensor_data
    /\ producers' = At(t, "loop")
    /\ UNCHANGED serverVars
    /\ AnalyzerIdle

\* server.py lines 148-151: Ready mode, after the call
Esp32ResetsMesh(t) ==
    /\ producers[t].kind = "esp32" /\ producers[t].pc = "resetting"
    /\ mesh' = InitialPose
    /\ producers' = At(t, "loop")
    /\ UNCHANGED <<analyzerVars, mode, stepVars, energyVars, latest_metrics,
                   profileVars, activity_model, heuristic_calls, clock, ret,
                   call, nsamples, serverVars, sensor_data>>

\* server.py lines 202-206: the outer handler of the thread
Esp32Except(t) ==
    /\ producers[t].kind = "esp32" /\ producers[t].pc = "raised"
    /\ connected_to_esp32' = FALSE
    /\ producers' = At(t, "done")
    /\ DemoIdle
    /\ UNCHANGED sensor_data
    /\ AnalyzerIdle

\* server.py lines 300-303 and form_analyzer.py lines 305-313, 350-367: the
\* while test of the task, the next frame of the generator, which counts
\* a generated repetition when completes is TRUE, and
\* sensor_data.update(demo_data), which copies the exercise and the
\* rep_count of the generator into sensor_data
DemoLoopTest(t, completes) ==
    /\ producers[t].kind = "demo" /\ producers[t].pc = "loop"
    /\ IF demo_mode /\ running
       THEN /\ rep_count' =
                  IF completes /\ demo_exercise # "running"
                  THEN rep_count + 1 ELSE rep_count
            /\ sensor_data' =
                  [exercise |-> demo_exercise, repCount |-> rep_count']
            /\ producers' = At(t, "calling")
       ELSE /\ producers' = At(t, "done")
            /\ UNCHANGED <<rep_count, sensor_data>>
    /\ UNCHANGED <<connected_to_esp32, demo_mode, running, demo_exercise>>
    /\ AnalyzerIdle

\* server.py lines 305-311: the call of the analyzer returns, or raises
\* and ends the task
DemoFrame(t, pitch, roll, sd, tick) ==
    /\ producers[t].kind = "demo" /\ producers[t].pc = "calling"
    /\ analyze(producers[t].exercise[1], pitch, roll, sd, tick, ClsRaise)
    /\ producers' =
          Returned(t, IF ret'.raised THEN "done" ELSE "publishing",
                   ~ret'.raised /\ ret'.rep_detected)

\* server.py lines 313-323: the repetition the call detected is counted
DemoPublishes(t) ==
    /\ producers[t].kind = "demo" /\ producers[t].pc = "publishing"
    /\ sensor_data' =
          IF producers[t].rep_detected
          THEN [sensor_data EXCEPT !.repCount = sensor_data.repCount + 1]
          ELSE sensor_data
    /\ producers' = At(t, "loop")
    /\ UNCHANGED serverVars
    /\ AnalyzerIdle

(***************************************************************************)
(* Server: the five requests in any order, at most MaxProducers threads    *)
(* started and MaxServerFrames frames delivered                            *)
(***************************************************************************)
MaxProducers == 2
MaxServerFrames == 2
ServerExercises == {"bicep_curl", "squat"}
ServerPitches == {10, 70}
ServerSample == Sample(100, 0, 70, [kind |-> "missing", v |-> 0])

InitServer == InitWith("none")

ServerConnect == Len(producers) < MaxProducers /\ connect_esp32_endpoint

ServerDisconnect == disconnect_esp32

ServerStartDemo ==
    \E exercise \in ServerExercises :
        Len(producers) < MaxProducers /\ start_demo(exercise)

ServerStopDemo == stop_demo

ServerResetReps == reset_reps

ServerEsp32Step ==
    \E t \in DOMAIN producers :
        \/ Esp32Connects(t)
        \/ Esp32ConnectFails(t)
        \/ Esp32LoopTest(t)
        \/ Esp32Receives(t)
        \/ Esp32TimesOut(t)
        \/ Esp32Publishes(t)
        \/ Esp32ResetsMesh(t)
        \/ Esp32Except(t)

ServerEsp32Frame ==
    \E t \in DOMAIN producers, pitch \in ServerPitches :
        /\ nsamples < MaxServerFrames
        /\ Esp32Frame(t, pitch, 0, ServerSample, 1)

ServerDemoStep ==
    \E t \in DOMAIN producers :
        \/ \E completes \in BOOLEAN : DemoLoopTest(t, completes)
        \/ DemoPublishes(t)

ServerDemoFrame ==
    \E t \in DOMAIN producers, pitch \in ServerPitches :
        /\ nsamples < MaxServerFrames
        /\ DemoFrame(t, pitch, 0, ServerSample, 1)

NextServer ==
    \/ ServerConnect
    \/ ServerDisconnect
    \/ ServerStartDemo
    \/ ServerStopDemo
    \/ ServerResetReps
    \/ ServerEsp32Step
    \/ ServerEsp32Frame
    \/ ServerDemoStep
    \/ ServerDemoFrame

SpecServer == InitServer /\ [][NextServer]_vars

\* C22: at no time are two producers both inside a call of analyze or of
\* _process_activity_and_steps on the one analyzer
C22_OneCallerAtATime == Cardinality(Calling) <= 1

\* C37: the published repCount changes only to 0 by reset_reps, or by +1
\* when a producer counts the repetition its call of analyze detected
C37_RepCountFollowsReps ==
    [][sensor_data'.repCount # sensor_data.repCount =>
        \/ /\ sensor_data'.repCount = 0
           /\ producers' = producers
        \/ /\ sensor_data'.repCount = sensor_data.repCount + 1
           /\ \E t \in DOMAIN producers :
                 /\ producers[t].pc = "publishing"
                 /\ producers[t].rep_detected
                 /\ producers'[t].pc = "loop"]_vars

(***************************************************************************)
(* Cadence                                                                 *)
(***************************************************************************)
\* C23: the cadence counts accepted steps, so while no step was ever
\* accepted the cadence of every sample is 0
C23_NoStepNoCadence ==
    (call.op = "process" /\ _last_step_time = << >>) => call.p.cadence_spm = 0

(***************************************************************************)
(* First steps: samples of two magnitudes without a timestamp, 0.2 s or    *)
(* 0.5 s after the previous call                                           *)
(***************************************************************************)
MaxFirstStepSamples == 7
FirstStepMags == {100, 200}
FirstStepTicks == {2, 5}

InitFirstStep == InitWith("none")

NextFirstStep ==
    \E mag \in FirstStepMags, tick \in FirstStepTicks :
        /\ nsamples < MaxFirstStepSamples
        /\ _process_activity_and_steps(
               Sample(mag, 0, 0, [kind |-> "missing", v |-> 0]), tick, ClsRaise)
        /\ UNCHANGED producers

SpecFirstStep == InitFirstStep /\ [][NextFirstStep]_vars

\* C24: the first accepted candidate of a session sets _last_step_time and
\* reports stepDetected, and leaves step_count at 0; every later accepted
\* candidate adds exactly 1; a sample that is not accepted adds nothing
C24_FirstStepFree ==
    [][call'.op = "process" =>
          /\ (call'.p.step_detected /\ _last_step_time = << >>) =>
                 /\ step_count' = step_count
                 /\ _last_step_time' = <<call'.p.ts>>
                 /\ latest_metrics'.stepDetected
                 /\ latest_metrics'.stepCount = step_count
          /\ (call'.p.step_detected /\ _last_step_time # << >>) =>
                 /\ step_count' = step_count + 1
                 /\ _last_step_time' = <<call'.p.ts>>
                 /\ latest_metrics'.stepDetected
                 /\ latest_metrics'.stepCount = step_count + 1
          /\ ~call'.p.step_detected => UNCHANGED <<step_count, _last_step_time>>
          /\ _last_step_time = << >> => step_count = 0]_vars

C24_Witness ==
    /\ call.op = "process"
    /\ call.p.step_detected
    /\ step_count = 2
    /\ nsamples = MaxFirstStepSamples

\* C25: a sample that leaves fewer than 5 samples in the step buffer
\* detects no step, changes neither step_count nor _last_step_time, and
\* raises nothing
C25_NoDetectionBelowFive ==
    [][(call'.op = "process" /\ call'.p.buffered < MinBufferForDetection) =>
          /\ ~call'.p.step_detected
          /\ ~latest_metrics'.stepDetected
          /\ UNCHANGED <<step_count, _last_step_time>>
          /\ ~ret'.raised
          /\ call'.processed]_vars

C25_Witness ==
    /\ call.op = "process"
    /\ call.p.buffered = 4
    /\ Mags(_step_buffer) = <<100, 100, 200, 100>>
    /\ ~call.p.step_detected
    /\ _last_step_time = << >>

(***************************************************************************)
(* Peak train: 12 samples at 10 Hz, one peak every 5 samples (2 Hz), at    *)
(* any phase and of three heights over a base of 1 g                       *)
(***************************************************************************)
MaxPeakTrainSamples == 12
PeakTrainPeriod == 5
PeakTrainPhases == 0..(PeakTrainPeriod - 1)
PeakTrainHeights == {150, 200, 300}

\* the magnitude of sample i of the train of the given phase and height
PeakTrainMag(phase, height, i) ==
    IF (i + phase) % PeakTrainPeriod = 3 THEN height ELSE 100

\* the samples buffered so far are the beginning of this train
OnPeakTrain(phase, height) ==
    \A i \in 1..Len(_step_buffer) :
        _step_buffer[i][2] = PeakTrainMag(phase, height, i)

InitPeakTrain == InitWith("none")

NextPeakTrain ==
    \E phase \in PeakTrainPhases, height \in PeakTrainHeights :
        /\ nsamples < MaxPeakTrainSamples
        /\ OnPeakTrain(phase, height)
        /\ _process_activity_and_steps(
               Sample(PeakTrainMag(phase, height, nsamples + 1), 0, 0,
                      TsNum(nsamples + 1)), 1, ClsRaise)
        /\ UNCHANGED producers

SpecPeakTrain == InitPeakTrain /\ [][NextPeakTrain]_vars

\* C26: after the 12 samples of the 2 Hz peak train the step count is the
\* number of full cycles, one step per peak
C26_StepPerCycle ==
    nsamples = MaxPeakTrainSamples =>
        step_count = MaxPeakTrainSamples \div PeakTrainPeriod

(***************************************************************************)
(* Rules of the heuristic: calls with arguments on both sides of every     *)
(* threshold                                                               *)
(***************************************************************************)
MaxRuleCalls == 2
RuleCadences == {0, 19, 20, 79, 80, 200}
RuleAccMags == {100, 104, 105, 106, 120, 121}
RuleGyroMags == {0, 79, 80, 120, 121, 300, 301, 700}

InitRules == InitWith("none")

NextRules ==
    \E c \in RuleCadences, a \in RuleAccMags, g \in RuleGyroMags :
        /\ nsamples < MaxRuleCalls
        /\ ClassifyHeuristically(c, a, g)
        /\ UNCHANGED producers

SpecRules == InitRules /\ [][NextRules]_vars

\* C27: the rules apply in order, first match wins: stationary at 0.9 for
\* cadence < 20, acc < 1.05 and gyro < 80; else running, confidence within
\* [0.5, 1.0], for cadence >= 80 or (gyro > 300 and acc > 1.2); else
\* walking, confidence at most 0.9, for cadence >= 20 or acc > 1.05 or
\* gyro > 120; else stationary at 0.85
C27_RulesInOrder ==
    call.op = "classify" =>
        LET cadence == call.cadence_spm
            acc == call.acc_mag
            gyro == call.gyro_mag
            still == cadence < 20 /\ acc < 105 /\ gyro < 80
            runs == cadence >= 80 \/ (gyro > 300 /\ acc > 120)
            walks == cadence >= 20 \/ acc > 105 \/ gyro > 120
        IN  /\ still =>
                ret.activity = "stationary" /\ ret.confidence = 1080
            /\ (~still /\ runs) =>
                /\ ret.activity = "running"
                /\ 600 <= ret.confidence /\ ret.confidence <= 1200
            /\ (~still /\ ~runs /\ walks) =>
                ret.activity = "walking" /\ ret.confidence <= 1080
            /\ (~still /\ ~runs /\ ~walks) =>
                ret.activity = "stationary" /\ ret.confidence = 1020

C27_Witness ==
    /\ call.op = "classify"
    /\ call.cadence_spm = 80 /\ call.acc_mag = 106 /\ call.gyro_mag = 121
    /\ ret.activity = "running"
    /\ ret.confidence = 600
    /\ nsamples = MaxRuleCalls

(***************************************************************************)
(* Rep metrics                                                             *)
(***************************************************************************)
\* C28: every rep completion, the first of a session included, appends
\* the duration of the rep to rep_durations and resets range_of_motion
C28_EveryRepTimed ==
    (call.op = "analyze" /\ ~ret.raised /\ ret.rep_detected) =>
        /\ rep_durations # << >>
        /\ range_of_motion = [min |-> 0, max |-> 0]

(***************************************************************************)
(* Stability: bicep-curl frames of two pitches and two rolls, without      *)
(* sensor data                                                             *)
(***************************************************************************)
MaxStabilitySamples == 6
StabilityPitches == {10, 70}
StabilityRolls == {0, 15}

InitStability == InitWith("none")

NextStability ==
    \E pitch \in StabilityPitches, roll \in StabilityRolls :
        /\ nsamples < MaxStabilitySamples
        /\ analyze("bicep_curl", pitch, roll, NoData, 1, ClsRaise)
        /\ UNCHANGED producers

SpecStability == InitStability /\ [][NextStability]_vars

\* the mean of the squared distances from the mean of 5 values exceeds
\* the limit: sum((5*x - S)^2) / 125 > limit
SpreadAbove(xs, limit) ==
    LET S == xs[1] + xs[2] + xs[3] + xs[4] + xs[5]
    IN  SeqSum([i \in 1..5 |-> (5 * xs[i] - S) * (5 * xs[i] - S)]) > 125 * limit

Says(feedback, text) == \E i \in DOMAIN feedback : feedback[i] = text

\* C29: with fewer than 5 entries of movement history the score of the
\* exercise analysis is returned untouched, with no stability tag; with 5
\* or more the score is min(exercise score, 100 - 20 for a pitch variance
\* of the last 5 above 100 - 15 for a roll variance above 50), each penalty
\* with its own tag
C29_StabilityScore ==
    [][(call'.op = "analyze" /\ call'.supported) =>
          LET c == call'
              hist == movement_history'
              e == ExerciseResult(c.exercise, c.pitch, c.roll, c.sd, hist, c.now)
              n == Len(hist)
              pitchTag == "Stabilize your movement - too much variation"
              rollTag == "Keep your form steady - reduce swaying"
          IN  IF n < 5
              THEN /\ ret'.score = e.score
                   /\ ~Says(ret'.feedback, pitchTag)
                   /\ ~Says(ret'.feedback, rollTag)
              ELSE LET pv == SpreadAbove([i \in 1..5 |-> hist[n - 5 + i].pitch], 100)
                       rv == SpreadAbove([i \in 1..5 |-> hist[n - 5 + i].roll], 50)
                   IN  /\ ret'.score =
                              Min2(e.score, 100 - (IF pv THEN 20 ELSE 0)
                                                - (IF rv THEN 15 ELSE 0))
                       /\ Says(ret'.feedback, pitchTag) <=> pv
                       /\ Says(ret'.feedback, rollTag) <=> rv
                       /\ current_form_score' = ret'.score]_vars

C29_Witness ==
    /\ call.op = "analyze"
    /\ Len(movement_history) >= 5
    /\ Says(ret.feedback, "Stabilize your movement - too much variation")
    /\ Says(ret.feedback, "Keep your form steady - reduce swaying")
    /\ ret.score = 65

(***************************************************************************)
(* Tempo band                                                              *)
(***************************************************************************)
\* lines 376-397: ideal_tempo and tempo_range of the thresholds, in 0.1 s
IdealTempo(exercise) == IF exercise = "shoulder_press" THEN 22 ELSE 20
TempoRange(exercise) == IF exercise = "bicep_curl" THEN 5 ELSE 6

\* C30: for bicep_curl, lateral_raise and shoulder_press, once 2 rep
\* durations are recorded, the average of the last 2 below ideal - range
\* gives a too-fast tag, above ideal + range a too-slow tag, and inside the
\* band neither
C30_TempoBand ==
    (/\ call.op = "analyze"
     /\ ~ret.raised
     /\ call.exercise \in RepExercises
     /\ Len(rep_durations) >= 2) =>
        LET n == Len(rep_durations)
            last2 == rep_durations[n] + rep_durations[n - 1]
            low == 2 * (IdealTempo(call.exercise) - TempoRange(call.exercise))
            high == 2 * (IdealTempo(call.exercise) + TempoRange(call.exercise))
            tooFast == \/ Says(ret.feedback, "Slow down for better form")
                       \/ Says(ret.feedback, "Slow down your reps")
            tooSlow == \/ Says(ret.feedback, "Maintain steady pace")
                       \/ Says(ret.feedback, "Speed up slightly")
        IN  /\ last2 < low => tooFast
            /\ last2 > high => tooSlow
            /\ (low <= last2 /\ last2 <= high) => (~tooFast /\ ~tooSlow)

(***************************************************************************)
(* Buffers: lateral-raise frames 0.1 s apart, pitch 10 and 70 in turn (a   *)
(* rep on every other frame), each with a sample, until all three buffers  *)
(* have overflowed                                                         *)
(***************************************************************************)
MaxBufferSamples == 104
BufferMags == {100, 200}

BufferPitch(n) == IF n % 2 = 1 THEN 10 ELSE 70

InitBuffers == InitWith("none")

NextBuffers ==
    \E mag \in BufferMags :
        /\ nsamples < MaxBufferSamples
        /\ (nsamples + 1) % 50 # 3 => mag = 100
        /\ analyze("lateral_raise", BufferPitch(nsamples + 1), 0,
                   Sample(mag, 0, 0, [kind |-> "missing", v |-> 0]), 1, ClsRaise)
        /\ UNCHANGED producers

SpecBuffers == InitBuffers /\ [][NextBuffers]_vars

\* s after the insertion of e into a first-in first-out buffer of cap places
FifoInsert(s, e, cap) ==
    IF Len(s) = cap
    THEN [i \in 1..cap |-> IF i < cap THEN s[i + 1] ELSE e]
    ELSE s \o <<e>>

\* C31: movement_history holds at most 20 entries, rep_durations at most 5
\* and _step_buffer at most 100; an insertion into a full buffer drops the
\* oldest entry alone and keeps the others in their order
C31_BoundedFifo ==
    [][/\ Len(movement_history') <= 20
       /\ Len(rep_durations') <= 5
       /\ Len(_step_buffer') <= 100
       /\ (call'.op = "analyze" /\ ~ret'.raised) =>
              /\ movement_history' =
                     FifoInsert(movement_history,
                                [pitch |-> call'.pitch, roll |-> call'.roll,
                                 timestamp |-> call'.now], 20)
              /\ (ret'.rep_detected /\ last_rep_time # << >>) =>
                     rep_durations' =
                         FifoInsert(rep_durations,
                                    call'.now - last_rep_time[1], 5)
       /\ call'.processed =>
              _step_buffer' =
                  FifoInsert(_step_buffer,
                             <<call'.p.ts, call'.p.acc_magnitude>>, 100)]_vars

C31_Witness ==
    /\ nsamples = MaxBufferSamples
    /\ Len(movement_history) = 20
    /\ movement_history[1].timestamp = MaxBufferSamples - 19
    /\ Len(rep_durations) = 5
    /\ Len(_step_buffer) = 100
    /\ _step_buffer[1][1] = MaxBufferSamples - 99
    /\ ret.rep_detected = FALSE

(***************************************************************************)
(* Lock-out: samples of two magnitudes without a timestamp, 0.3 s or 2.5 s *)
(* after the previous call, so that the timestamps never decrease          *)
(***************************************************************************)
MaxLockoutSamples == 7
LockoutMags == {100, 200}
LockoutTicks == {3, 25}

InitLockout == InitWith("none")

NextLockout ==
    \E mag \in LockoutMags, tick \in LockoutTicks :
        /\ nsamples < MaxLockoutSamples
        /\ _process_activity_and_steps(
               Sample(mag, 0, 0, [kind |-> "missing", v |-> 0]), tick, ClsRaise)
        /\ UNCHANGED producers

SpecLockout == InitLockout /\ [][NextLockout]_vars

\* a step was accepted and the newest sample is more than 2.0 s after it
LockedOut ==
    /\ _last_step_time # << >>
    /\ _step_buffer # << >>
    /\ _step_buffer[Len(_step_buffer)][1] - _last_step_time[1] > 20

\* C32: once a sample is more than 2.0 s after the last accepted step, no
\* later sample is accepted: _last_step_time and step_count keep their
\* values, and the detector stays in that condition
C32_LockedOutForever ==
    [][LockedOut =>
          /\ UNCHANGED <<_last_step_time, step_count>>
          /\ ~call'.p.step_detected
          /\ ~latest_metrics'.stepDetected
          /\ LockedOut']_vars

C32_Witness ==
    /\ LockedOut
    /\ call.op = "process"
    /\ call.p.is_peak
    /\ call.p.time_since_last = <<50>>
    /\ ~call.p.step_detected
    /\ nsamples = MaxLockoutSamples

(***************************************************************************)
(* Candidate of the peak test                                              *)
(***************************************************************************)
\* lines 799, 812: the buffered sample at index 2 of the last 10, for a
\* buffer of 5 or more
Candidate(buf) == buf[Len(buf) - Min2(Len(buf), RecentWindow) + 3]

\* C33: a buffered sample is the candidate of at most one call, so the
\* sample accepted as a step by one call is not accepted again by the next
C33_PeakAcceptedOnce ==
    [][~(/\ call.op = "process"
         /\ call.p.step_detected
         /\ call'.op = "process"
         /\ call'.p.step_detected
         /\ Candidate(_step_buffer) = Candidate(_step_buffer'))]_vars

(***************************************************************************)
(* Stillness: samples of 1.00 g, 1.29 g and 0.55 g, 0.5 s apart            *)
(***************************************************************************)
MaxStillSamples == 7
StillMags == {100, 129, 55}

InitStill == InitWith("none")

NextStill ==
    \E mag \in StillMags :
        /\ nsamples < MaxStillSamples
        /\ _process_activity_and_steps(
               Sample(mag, 0, 0, [kind |-> "missing", v |-> 0]), 5, ClsRaise)
        /\ UNCHANGED producers

SpecStill == InitStill /\ [][NextStill]_vars

\* all magnitudes of the buffer lie within a band narrower than 0.3 g
WithinBand(buf) == \A i, j \in DOMAIN buf : buf[i][2] - buf[j][2] < 30

\* C34: a sample after which all magnitudes of the step buffer, its own
\* included, lie within a band narrower than 0.3 g detects no step
C34_StillnessNoStep ==
    [][(call'.op = "process" /\ WithinBand(_step_buffer')) =>
          /\ ~call'.p.step_detected
          /\ ~latest_metrics'.stepDetected
          /\ UNCHANGED <<step_count, _last_step_time>>]_vars

C34_Witness ==
    /\ call.op = "process"
    /\ Mags(_step_buffer) = <<100, 100, 129, 100, 100>>
    /\ WithinBand(_step_buffer)
    /\ ~call.p.step_detected

\* C34 as stated: in a state whose step buffer lies within a band narrower
\* than 0.3 g, processing a sample detects no step
C34_AsStated ==
    [][(call'.op = "process" /\ _step_buffer # << >> /\ WithinBand(_step_buffer)) =>
          ~call'.p.step_detected]_vars

(***************************************************************************)
(* Hysteresis: bicep-curl frames with pitch on both sides of 20 and 60     *)
(***************************************************************************)
MaxHysteresisSamples == 5
HysteresisPitches == {19, 20, 40, 60, 61}

InitHysteresis == InitWith("none")

NextHysteresis ==
    \E pitch \in HysteresisPitches :
        /\ nsamples < MaxHysteresisSamples
        /\ analyze("bicep_curl", pitch, 0, NoData, 1, ClsRaise)
        /\ UNCHANGED producers

SpecHysteresis == InitHysteresis /\ [][NextHysteresis]_vars

\* C35: a bicep-curl sample with pitch within [20, 60] changes no rep state
\* and emits no rep; the state goes from down to up only on pitch > 60 and
\* from up to down only on pitch < 20, and a rep is emitted on the
\* transition from up to down and on no other sample
C35_CurlHysteresis ==
    [][(call'.op = "analyze" /\ call'.exercise = "bicep_curl") =>
          /\ (20 <= call'.pitch /\ call'.pitch <= 60) =>
                 (rep_state' = rep_state /\ ~ret'.rep_detected)
          /\ (rep_state = "down" /\ rep_state' = "up") => call'.pitch > 60
          /\ (rep_state = "up" /\ rep_state' = "down") => call'.pitch < 20
          /\ ret'.rep_detected <=> (rep_state = "up" /\ rep_state' = "down")
          /\ rep_state' \in {"up", "down"}]_vars

C35_Witness ==
    /\ call.op = "analyze"
    /\ call.pitch = 60
    /\ rep_state = "down"
    /\ movement_history[Len(movement_history) - 1].pitch = 20
    /\ Len(movement_history) = MaxHysteresisSamples

(***************************************************************************)
(* First frame of an exercise selection                                    *)
(***************************************************************************)
\* C36: the first frame after the construction of the session or after
\* set_exercise emits no rep, no frame of the selection having had a pitch
\* above the raise threshold yet
C36_NoRepWithoutRaise ==
    [][(/\ call.op \in {"init", "set_exercise"}
        /\ call'.op = "analyze"
        /\ ~ret'.raised) => ~ret'.rep_detected]_vars

(***************************************************************************)
(* Disconnecting: connect and disconnect requests in any order, at most    *)
(* MaxDisconnectProducers threads started, and a device that sends at most *)
(* MaxDisconnectFrames frames and is silent afterwards, so that recv times *)
(* out.  No exercise is selected: every frame goes to                      *)
(* _process_activity_and_steps.  Each thread that was started is an OS     *)
(* thread and keeps running: weak fairness on the steps of each.           *)
(***************************************************************************)
MaxDisconnectProducers == 2
MaxDisconnectFrames == 2

InitDisconnect == InitWith("none")

DisconnectConnect ==
    Len(producers) < MaxDisconnectProducers /\ connect_esp32_endpoint

DisconnectDisconnect == disconnect_esp32

Esp32Runs(t) ==
    \/ Esp32Connects(t)
    \/ Esp32ConnectFails(t)
    \/ Esp32LoopTest(t)
    \/ /\ nsamples + Cardinality(Calling) < MaxDisconnectFrames
       /\ Esp32Receives(t)
    \/ Esp32TimesOut(t)
    \/ Esp32Frame(t, 0, 0, ServerSample, 1)
    \/ Esp32ResetsMesh(t)

DisconnectEsp32Step == \E t \in DOMAIN producers : Esp32Runs(t)

NextDisconnect ==
    \/ DisconnectConnect
    \/ DisconnectDisconnect
    \/ DisconnectEsp32Step

SpecDisconnect ==
    /\ InitDisconnect
    /\ [][NextDisconnect]_vars
    /\ \A t \in 1..MaxDisconnectProducers :
          WF_vars(t \in DOMAIN producers /\ Esp32Runs(t))

\* the receive loop of every ESP32 thread has ended: none will feed a frame
EveryLoopEnded ==
    \A t \in DOMAIN producers :
        producers[t].kind = "esp32" => producers[t].pc = "done"

\* C38: after a disconnect request, unless a connect request follows, the
\* receive loop of every ESP32 thread started so far eventually ends, also
\* the loop of a thread that was still connecting at the request
C38_DisconnectEndsLoops ==
    \A n \in 0..MaxDisconnectProducers :
        (call.op = "disconnect_esp32" /\ Len(producers) = n)
            ~> (EveryLoopEnded \/ Len(producers) > n)

====
